---- MODULE Spec2Model ----
(***************************************************************************)
(* Verification model of the oozextract decoder.                           *)
(*                                                                         *)
(* The module holds several state machines, one per component, that share  *)
(* one set of variables.  Each machine has its own specification; the      *)
(* variables of the other machines stay at their idle values.              *)
(*                                                                         *)
(*   SpecExtractor  Extractor::read / extract / parse_* (framing layer)    *)
(*   SpecQuantum    Core::decode_quantum chunk loop and decode_bytes       *)
(*   SpecLz         the copy loops of KrakenLzTable::process_lz_runs and   *)
(*                  LeviathanLzTable::process_lz (raw literals)            *)
(*   SpecCopy       Core::repeat_copy_64 / copy_bytes on one space         *)
(*   SpecTerm       termination of the nested decoding loops               *)
(***************************************************************************)
EXTENDS Integers, Sequences, FiniteSets, TLC

VARIABLES
    \* ---- Extractor session (src/src/extractor/mod.rs) ----
    pc,             \* position in Extractor::read (Extractor.pos, the count
                    \* of input bytes consumed, only feeds error messages)
    buf_len,        \* buf.len() of the current read call
    bytes_written,  \* bytes_written of the current read call
    header,         \* Extractor.header
    quantum,        \* the QuantumHeader parsed for the current quantum
    lzna_state,     \* Extractor.lzna_state    ("None" or an abstract state)
    bitknit_state,  \* Extractor.bitknit_state ("None" or an abstract state)
    reads,          \* number of read calls made on this session
    left,           \* observation: the state each adaptive decoder was left in
    last,           \* observation: what the latest step did
    \* ---- one call of Core::repeat_copy_64 (src/src/core/pointer.rs) ----
    copy_pc,        \* "idle", "call" (arguments chosen) or "ret"
    copy_buf,       \* the space both pointers are in, index -> byte
    copy_args,      \* [dest, src, bytes] of the call
    copy_res,       \* "ok" or "err" once the call has returned
    copy_old,       \* observation: copy_buf before the call
    \* ---- one LZ chunk: process_lz_runs of Kraken, process_lz of Leviathan
    \*      (src/src/algorithm/kraken.rs, src/src/algorithm/leviathan.rs) ----
    lz_pc,          \* "idle", "loop", "ok", "err" or "panic"
    lz_engine,      \* "Kraken" or "Leviathan"
    lz_mode,        \* the literal mode of the chunk
    lz_out_len,     \* output.len()
    lz_dst,         \* dst.index, the write cursor
    lz_dst_end,     \* dst_end.index
    lz_recent,      \* recent_offs
    lz_offset,      \* last_offset (Kraken) / offset (Leviathan)
    lz_cmd,         \* commands left in the command stream
    lz_offs,        \* entries left in the offset stream
    lz_len,         \* entries left in the length stream
    lz_len_total,   \* entries of the length stream in all
    lz_len_back,    \* Leviathan: len_stream_end, the back index of the stream
    lz_lit,         \* bytes left in the literal stream (negative: read past it)
    lz_lit_room,    \* bytes left in the space the literal stream lies in
    lz_obs,         \* observation: what the latest step did
    \* ---- one call of Core::decode_quantum (src/src/core.rs) ----
    q_pc,           \* "idle", "loop", "ok", "err" or "panic"
    q_src_left,     \* src_end - self.src: input bytes not yet consumed
    q_start,        \* index of the first byte of the quantum's window
    q_dst,          \* self.dst.index
    q_dst_end,      \* self.dst_end.index
    q_stored,       \* observation: bytes stored into the output so far
    q_stack,        \* the activations of decode_recursive, innermost last
    q_obs,          \* observation: what the latest step did
    \* ---- the buffer spaces of one Core (src/src/core/pointer.rs) ----
    sp_pc,          \* "idle" or "run"
    sp_mem,         \* the four spaces of the Core, each index -> byte
    sp_ops,         \* buffer operations made so far
    sp_obs,         \* observation: the latest operation and its result
    \* ---- the two interleaved rANS states of LZNA (src/src/lzna.rs) or
    \*      Bitknit (src/src/algorithm/bitknit.rs) ----
    rc_pc,          \* "idle", "init", "run", "err", "panic" or "ret0"
    rc_coder,       \* "Lzna" or "Bitknit"
    rc_a,           \* bits_a / bits, as 16-bit limbs, least significant first
    rc_b,           \* bits_b / bits2, as 16-bit limbs
    rc_steps,       \* decode operations made so far
    rc_obs,         \* observation: the latest operation
    \* ---- one LznaNibbleModel under Lzna::read_nibble (src/src/lzna.rs) ----
    nm_pc,          \* "idle" or "run"
    nm_prob,        \* prob[0..16], the cumulative probabilities
    nm_steps,       \* read_nibble calls made so far
    nm_sym,         \* the nibble the latest call returned, -1 before
    \* ---- one Huffman chunk under Core::decode_bytes (src/src/core.rs) ----
    hf_pc,          \* "idle", "call" or "done"
    hf_src,         \* the src_size bytes of the chunk after its size header
    hf_halves,      \* chunk_type >> 1: 1 for one half, 2 for two halves
    hf_out,         \* the dst_size bytes at output
    hf_obs,         \* observation: num_syms, syms[0] and the result
    \* ---- LeviathanLzTable::process_lz in O1 mode (src/src/algorithm/leviathan.rs) ----
    o1_pc,          \* "idle", "new", "cmd", "lit", "match", "final", "done", "err"
    o1_mem,         \* the four spaces: the window in Output, the streams in Scratch
    o1_dst,         \* dst
    o1_mode,        \* LeviathanModeO1: lit_streams, next_lit, context
    o1_left,        \* literals still to copy in the run under way
    o1_cmds,        \* commands read so far
    o1_taken,       \* history: literals written after a byte of each high nibble
    o1_obs,         \* observation: the latest literal written
    \* ---- the reverse look-up tables of make_lut (src/src/core/huffman.rs) ----
    rv_pc,          \* "idle" or "run"
    rv_input,       \* the input table, by its two multipliers
    rv_done,        \* the builders that have run
    rv_naive,       \* the output of reverse_naive
    rv_simd,        \* the output of reverse_simd
    rv_sse,         \* the output of reverse_sse
    \* ---- the recent offsets of process_lz_runs / process_lz (src/src/algorithm/kraken.rs, leviathan.rs) ----
    ro_pc,          \* "idle", "loop", "ok" or "err"
    ro_engine,      \* "Kraken" or "Leviathan"
    ro_recent,      \* recent_offs: slot -> [v: offset, o: where the value came from]
    ro_stream,      \* the unpacked offs_stream
    ro_pos,         \* entries of offs_stream read so far
    ro_cmds,        \* commands left in the command stream
    ro_obs,         \* the last command: its offs_index and the offset it used
    \* ---- the parser state of Lzna::decode_quantum (src/src/lzna.rs) ----
    ps_pc,          \* "idle", "start", "loop", "ok", "err" or "panic"
    ps_state,       \* state
    ps_dst,         \* self.dst
    ps_len,         \* self.output.len()
    ps_quanta,      \* quanta decoded with the session's LznaState
    ps_obs,         \* the last event and the model indices it used
    \* ---- match_history of LznaState around preprocess_match_history (src/src/lzna.rs) ----
    mh_pc,          \* "idle", "quantum" or "done"
    mh_before,      \* match_history when decode_quantum is entered
    mh_history,     \* match_history
    \* ---- the match copy of Bitknit::decode and Lzna::copy_offset (src/src/algorithm/bitknit.rs, src/src/lzna.rs) ----
    em_pc,          \* "idle", "call" or "ret"
    em_output,      \* self.output
    em_args,        \* [engine, dst, dist, length] of the match
    em_old,         \* self.output before the match
    em_res,         \* "none", "ok", "err" or "panic", with the branch taken
    \* ---- the eight command streams of LeviathanLzTable::process_lz (src/src/algorithm/leviathan.rs) ----
    mc_pc,          \* "idle", "loop", "ok" or "err"
    mc_start,       \* dst_start.index, the start of the chunk in the output
    mc_dst,         \* dst.index
    mc_lens,        \* multi_cmd_end - multi_cmd_ptr: the length of each stream, in bitstream order
    mc_stream,      \* multi_cmd_stream: the address of the next byte of each slot
    mc_cur,         \* cmd_stream, the address the next command is read at
    mc_left,        \* cmd_stream_left
    mc_obs,         \* the last command: where it was read and whose byte it was
    \* ---- the command loop of Core::decode_rle (src/src/core.rs) ----
    rl_pc,          \* "idle", "start", "loop", "ok", "err" or "panic"
    rl_src_size,    \* src_size
    rl_dst_size,    \* dst_size
    rl_cmd_ptr,     \* cmd_ptr, counted from the first byte of the command buffer
    rl_cmd_ptr_end, \* cmd_ptr_end, counted likewise
    rl_dst,         \* dst - the start of the output range
    rl_byte,        \* rle_byte
    rl_cmds,        \* commands decoded so far
    rl_obs,         \* the last command and what it wrote
    \* ---- the WholeMatch quantum of Extractor::extract (src/src/extractor/mod.rs) ----
    wm_pc,          \* "idle", "call" or "ret"
    wm_output,      \* output, the caller's buffer
    wm_old,         \* output before the quantum
    wm_args,        \* [offset, dst_bytes_left, whole_match_distance]
    wm_res,         \* "none", "ok" or "err"
    \* ---- the recent distances of BitknitState over the quanta of a session (src/src/algorithm/bitknit.rs) ----
    bk_pc,          \* "idle", "quantum", "loop" or "err"
    bk_mask,        \* self.state.recent_dist_mask
    bk_recent_mask, \* recent_mask, the local copy of decode
    bk_recent_dist, \* self.state.recent_dist
    bk_quanta,      \* quanta decoded with the state
    bk_matches,     \* matches decoded in the session
    bk_obs          \* the last step

extractorVars == <<pc, buf_len, bytes_written, header, quantum,
                   lzna_state, bitknit_state, reads, left, last>>

copyVars == <<copy_pc, copy_buf, copy_args, copy_res, copy_old>>

lzVars == <<lz_pc, lz_engine, lz_mode, lz_out_len, lz_dst, lz_dst_end,
            lz_recent, lz_offset, lz_cmd, lz_offs, lz_len, lz_len_total,
            lz_len_back, lz_lit, lz_lit_room, lz_obs>>

quantumVars == <<q_pc, q_src_left, q_start, q_dst, q_dst_end, q_stored,
                 q_stack, q_obs>>

spaceVars == <<sp_pc, sp_mem, sp_ops, sp_obs>>

rangeVars == <<rc_pc, rc_coder, rc_a, rc_b, rc_steps, rc_obs>>

nibbleVars == <<nm_pc, nm_prob, nm_steps, nm_sym>>

huffVars == <<hf_pc, hf_src, hf_halves, hf_out, hf_obs>>

o1Vars == <<o1_pc, o1_mem, o1_dst, o1_mode, o1_left, o1_cmds, o1_taken,
             o1_obs>>

reverseVars == <<rv_pc, rv_input, rv_done, rv_naive, rv_simd, rv_sse>>

recentVars == <<ro_pc, ro_engine, ro_recent, ro_stream, ro_pos, ro_cmds,
                 ro_obs>>

parserVars == <<ps_pc, ps_state, ps_dst, ps_len, ps_quanta, ps_obs>>

historyVars == <<mh_pc, mh_before, mh_history>>

emitVars == <<em_pc, em_output, em_args, em_old, em_res>>

multiVars == <<mc_pc, mc_start, mc_dst, mc_lens, mc_stream, mc_cur, mc_left,
                mc_obs>>

rleVars == <<rl_pc, rl_src_size, rl_dst_size, rl_cmd_ptr, rl_cmd_ptr_end,
             rl_dst, rl_byte, rl_cmds, rl_obs>>

wholeVars == <<wm_pc, wm_output, wm_old, wm_args, wm_res>>

bitknitVars == <<bk_pc, bk_mask, bk_recent_mask, bk_recent_dist, bk_quanta,
                  bk_matches, bk_obs>>

vars == <<extractorVars, copyVars, lzVars, quantumVars, spaceVars, rangeVars,
          nibbleVars, huffVars, o1Vars, reverseVars, recentVars, parserVars,
          historyVars, emitVars, multiVars, rleVars, wholeVars, bitknitVars>>

\* what each machine leaves alone
extractorRest == <<copyVars, lzVars, quantumVars, spaceVars, rangeVars,
                   nibbleVars, huffVars, o1Vars, reverseVars, recentVars,
                   parserVars, historyVars, emitVars, multiVars, rleVars,
                   wholeVars, bitknitVars>>
copyRest == <<extractorVars, lzVars, quantumVars, spaceVars, rangeVars,
              nibbleVars, huffVars, o1Vars, reverseVars, recentVars,
              parserVars, historyVars, emitVars, multiVars, rleVars,
              wholeVars, bitknitVars>>
lzRest == <<extractorVars, copyVars, quantumVars, spaceVars, rangeVars,
            nibbleVars, huffVars, o1Vars, reverseVars, recentVars, parserVars,
            historyVars, emitVars, multiVars, rleVars, wholeVars, bitknitVars>>
quantumRest == <<extractorVars, copyVars, lzVars, spaceVars, rangeVars,
                 nibbleVars, huffVars, o1Vars, reverseVars, recentVars,
                 parserVars, historyVars, emitVars, multiVars, rleVars,
                 wholeVars, bitknitVars>>
spaceRest == <<extractorVars, copyVars, lzVars, quantumVars, rangeVars,
               nibbleVars, huffVars, o1Vars, reverseVars, recentVars,
               parserVars, historyVars, emitVars, multiVars, rleVars,
               wholeVars, bitknitVars>>
rangeRest == <<extractorVars, copyVars, lzVars, quantumVars, spaceVars,
               nibbleVars, huffVars, o1Vars, reverseVars, recentVars,
               parserVars, historyVars, emitVars, multiVars, rleVars,
               wholeVars, bitknitVars>>
nibbleRest == <<extractorVars, copyVars, lzVars, quantumVars, spaceVars,
                rangeVars, huffVars, o1Vars, reverseVars, recentVars,
                parserVars, historyVars, emitVars, multiVars, rleVars,
                wholeVars, bitknitVars>>
huffRest == <<extractorVars, copyVars, lzVars, quantumVars, spaceVars,
              rangeVars, nibbleVars, o1Vars, reverseVars, recentVars,
              parserVars, historyVars, emitVars, multiVars, rleVars,
              wholeVars, bitknitVars>>
o1Rest == <<extractorVars, copyVars, lzVars, quantumVars, spaceVars,
            rangeVars, nibbleVars, huffVars, reverseVars, recentVars,
            parserVars, historyVars, emitVars, multiVars, rleVars, wholeVars,
            bitknitVars>>
reverseRest == <<extractorVars, copyVars, lzVars, quantumVars, spaceVars,
                 rangeVars, nibbleVars, huffVars, o1Vars, recentVars,
                 parserVars, historyVars, emitVars, multiVars, rleVars,
                 wholeVars, bitknitVars>>
recentRest == <<extractorVars, copyVars, lzVars, quantumVars, spaceVars,
                rangeVars, nibbleVars, huffVars, o1Vars, reverseVars,
                parserVars, historyVars, emitVars, multiVars, rleVars,
                wholeVars, bitknitVars>>
parserRest == <<extractorVars, copyVars, lzVars, quantumVars, spaceVars,
                rangeVars, nibbleVars, huffVars, o1Vars, reverseVars,
                recentVars, historyVars, emitVars, multiVars, rleVars,
                wholeVars, bitknitVars>>
historyRest == <<extractorVars, copyVars, lzVars, quantumVars, spaceVars,
                 rangeVars, nibbleVars, huffVars, o1Vars, reverseVars,
                 recentVars, parserVars, emitVars, multiVars, rleVars,
                 wholeVars, bitknitVars>>
emitRest == <<extractorVars, copyVars, lzVars, quantumVars, spaceVars,
              rangeVars, nibbleVars, huffVars, o1Vars, reverseVars,
              recentVars, parserVars, historyVars, multiVars, rleVars,
              wholeVars, bitknitVars>>
multiRest == <<extractorVars, copyVars, lzVars, quantumVars, spaceVars,
               rangeVars, nibbleVars, huffVars, o1Vars, reverseVars,
               recentVars, parserVars, historyVars, emitVars, rleVars,
               wholeVars, bitknitVars>>
rleRest == <<extractorVars, copyVars, lzVars, quantumVars, spaceVars,
             rangeVars, nibbleVars, huffVars, o1Vars, reverseVars, recentVars,
             parserVars, historyVars, emitVars, multiVars, wholeVars,
             bitknitVars>>
wholeRest == <<extractorVars, copyVars, lzVars, quantumVars, spaceVars,
               rangeVars, nibbleVars, huffVars, o1Vars, reverseVars,
               recentVars, parserVars, historyVars, emitVars, multiVars,
               rleVars, bitknitVars>>
bitknitRest == <<extractorVars, copyVars, lzVars, quantumVars, spaceVars,
                 rangeVars, nibbleVars, huffVars, o1Vars, reverseVars,
                 recentVars, parserVars, historyVars, emitVars, multiVars,
                 rleVars, wholeVars>>

-----------------------------------------------------------------------------
(* Bounds of the model *)

\* number of Extractor::read calls made on one session
MaxReads == 2
\* largest output buffer, counted in large blocks
MaxBlocks == 2
\* the abstract adaptive-model state saturates here
MaxAdapt == 1
\* length of the buffer repeat_copy_64 works in
CopyLen == 18
\* commands in the command stream of one LZ chunk
MaxCmds == 2
\* dst_size of one LZ chunk; the output buffer holds two of them
LzWindow == 16
\* longest compressed quantum handed to decode_quantum
MaxInput == 20
\* buffer operations made on one Core
MaxOps == 2
\* decode operations made on one range coder
MaxDecodes == 3
\* read_nibble calls followed on one model
MaxNibbles == 5
\* length of the runs that bring a model to rest
LongRun == 900
\* bytes in a Huffman chunk, bytes it decodes to
MaxHuffSrc == 4
MaxHuffOut == 2
\* bytes in a literal stream, room in the window, commands read
StreamLen == 3
O1Room == 7
MaxO1Cmds == 2
\* the largest multiplier of an input table of the reverse look-up
MaxMul == 5

(* Program constants *)
SMALL_BLOCK == 16384
LARGE_BLOCK == 262144
\* the output bytes of one chunk of decode_quantum (0x20000)
CHUNK == 131072

Min(a, b) == IF a < b THEN a ELSE b
Max(a, b) == IF a > b THEN a ELSE b

-----------------------------------------------------------------------------
(* Extractor: block header *)

\* Extractor::decoder_type: the decoder a header byte names
decoder_type(value) ==
    CASE value = 5  -> "Lzna"
      [] value = 6  -> "Kraken"
      [] value = 10 -> "Mermaid"
      [] value = 11 -> "Bitknit"
      [] value = 12 -> "Leviathan"
      [] OTHER      -> "Unknown"

\* BlockHeader::block_size
block_size(h) ==
    IF h.decoder_type \in {"Lzna", "Bitknit"} THEN SMALL_BLOCK ELSE LARGE_BLOCK

\* impl Default for BlockHeader (derive(Default); DecoderType defaults to Lzna)
DefaultHeader ==
    [decoder_type |-> "Lzna", restart_decoder |-> FALSE,
     uncompressed |-> FALSE, use_checksums |-> FALSE]

\* a reserved-bit test that looks at the low nibble of byte 0 alone
HeaderLowNibbleOnly(b1) == b1 % 16 = 12

\* the reserved-bit test of Extractor::parse_header on byte 0
HeaderReservedOk(b1) == (b1 % 16 = 12) /\ ((b1 \div 16) % 4 = 0)

\* the BlockHeader that Extractor::parse_header builds from the two bytes
HeaderOf(b1, b2) ==
    [decoder_type    |-> decoder_type(b2 % 128),
     restart_decoder |-> ((b1 \div 128) % 2 = 1),
     uncompressed    |-> ((b1 \div 64) % 2 = 1),
     use_checksums   |-> (b2 \div 128 # 0)]

\* whether Extractor::parse_header accepts the two bytes
HeaderAccepted(b1, b2) ==
    HeaderReservedOk(b1) /\ decoder_type(b2 % 128) # "Unknown"

NoLast == [op |-> "none"]

\* Option::None of Extractor.lzna_state / Extractor.bitknit_state
NoState == -1
\* the adaptive state LznaState::new() / BitknitState::new() builds; a state
\* is abstracted to the number of quanta that have adapted it since
LznaStateNew == 0
BitknitStateNew == 0

\* the copy machine at rest
IdleCopy ==
    /\ copy_pc = "idle"
    /\ copy_buf = <<>>
    /\ copy_args = [dest |-> 0, src |-> 0, bytes |-> 0]
    /\ copy_res = "none"
    /\ copy_old = <<>>

\* the LZ machine at rest
IdleLz ==
    /\ lz_pc = "idle"
    /\ lz_engine = "none"
    /\ lz_mode = 0
    /\ lz_out_len = 0
    /\ lz_dst = 0
    /\ lz_dst_end = 0
    /\ lz_recent = <<>>
    /\ lz_offset = 0
    /\ lz_cmd = 0
    /\ lz_offs = 0
    /\ lz_len = 0
    /\ lz_len_total = 0
    /\ lz_len_back = 0
    /\ lz_lit = 0
    /\ lz_lit_room = 0
    /\ lz_obs = NoLast

\* the quantum machine at rest
IdleQuantum ==
    /\ q_pc = "idle"
    /\ q_src_left = 0
    /\ q_start = 0
    /\ q_dst = 0
    /\ q_dst_end = 0
    /\ q_stored = 0
    /\ q_stack = <<>>
    /\ q_obs = NoLast

\* the space machine at rest
IdleSpace ==
    /\ sp_pc = "idle"
    /\ sp_mem = <<>>
    /\ sp_ops = 0
    /\ sp_obs = NoLast

\* the range machine at rest
IdleRange ==
    /\ rc_pc = "idle"
    /\ rc_coder = "none"
    /\ rc_a = <<>>
    /\ rc_b = <<>>
    /\ rc_steps = 0
    /\ rc_obs = NoLast

\* the nibble machine at rest
IdleNibble ==
    /\ nm_pc = "idle"
    /\ nm_prob = <<>>
    /\ nm_steps = 0
    /\ nm_sym = -1

\* the huff machine at rest
IdleHuff ==
    /\ hf_pc = "idle"
    /\ hf_src = <<>>
    /\ hf_halves = 0
    /\ hf_out = <<>>
    /\ hf_obs = NoLast

\* the o1 machine at rest
IdleO1 ==
    /\ o1_pc = "idle"
    /\ o1_mem = <<>>
    /\ o1_dst = 0
    /\ o1_mode = <<>>
    /\ o1_left = 0
    /\ o1_cmds = 0
    /\ o1_taken = <<>>
    /\ o1_obs = NoLast

\* the reverse machine at rest
IdleReverse ==
    /\ rv_pc = "idle"
    /\ rv_input = <<>>
    /\ rv_done = {}
    /\ rv_naive = <<>>
    /\ rv_simd = <<>>
    /\ rv_sse = <<>>

\* the recent machine at rest
IdleRecent ==
    /\ ro_pc = "idle"
    /\ ro_engine = "none"
    /\ ro_recent = <<>>
    /\ ro_stream = <<>>
    /\ ro_pos = 0
    /\ ro_cmds = 0
    /\ ro_obs = NoLast

\* the parser machine at rest
IdleParser ==
    /\ ps_pc = "idle"
    /\ ps_state = 0
    /\ ps_dst = 0
    /\ ps_len = 0
    /\ ps_quanta = 0
    /\ ps_obs = NoLast

\* the history machine at rest
IdleHistory ==
    /\ mh_pc = "idle"
    /\ mh_before = <<>>
    /\ mh_history = <<>>

\* the emit machine at rest
IdleEmit ==
    /\ em_pc = "idle"
    /\ em_output = <<>>
    /\ em_args = <<>>
    /\ em_old = <<>>
    /\ em_res = NoLast

\* the multi machine at rest
IdleMulti ==
    /\ mc_pc = "idle"
    /\ mc_start = 0
    /\ mc_dst = 0
    /\ mc_lens = <<>>
    /\ mc_stream = <<>>
    /\ mc_cur = 0
    /\ mc_left = 0
    /\ mc_obs = NoLast

\* the rle machine at rest
IdleRle ==
    /\ rl_pc = "idle"
    /\ rl_src_size = 0
    /\ rl_dst_size = 0
    /\ rl_cmd_ptr = 0
    /\ rl_cmd_ptr_end = 0
    /\ rl_dst = 0
    /\ rl_byte = 0
    /\ rl_cmds = 0
    /\ rl_obs = NoLast

\* the whole machine at rest
IdleWhole ==
    /\ wm_pc = "idle"
    /\ wm_output = <<>>
    /\ wm_old = <<>>
    /\ wm_args = <<>>
    /\ wm_res = "none"

\* the bitknit machine at rest
IdleBitknit ==
    /\ bk_pc = "idle"
    /\ bk_mask = 0
    /\ bk_recent_mask = 0
    /\ bk_recent_dist = <<>>
    /\ bk_quanta = 0
    /\ bk_matches = 0
    /\ bk_obs = NoLast

\* output buffer lengths the caller may pass to Extractor::read
BufLens ==
    {1, SMALL_BLOCK + 9, LARGE_BLOCK + 1, MaxBlocks * LARGE_BLOCK}

InitExtractor ==
    /\ pc = "loop"
    /\ buf_len \in BufLens
    /\ bytes_written = 0
    /\ header = DefaultHeader
    /\ quantum = [kind |-> "None"]
    /\ lzna_state = NoState
    /\ bitknit_state = NoState
    /\ reads = 1
    /\ left = [Lzna |-> NoState, Bitknit |-> NoState]
    /\ last = NoLast
    /\ IdleCopy
    /\ IdleLz
    /\ IdleQuantum
    /\ IdleSpace
    /\ IdleRange
    /\ IdleNibble
    /\ IdleHuff
    /\ IdleO1
    /\ IdleReverse
    /\ IdleRecent
    /\ IdleParser
    /\ IdleHistory
    /\ IdleEmit
    /\ IdleMulti
    /\ IdleRle
    /\ IdleWhole
    /\ IdleBitknit

\* the first header byte: 0x0C with each of bits 6 and 7, with bit 4 or 5
\* set, and with another low nibble
HeaderByte0 == {12, 76, 140, 204, 28, 44, 13, 0}
\* the second header byte: the decoder numbers, with and without bit 7
HeaderByte1 == {5, 6, 10, 11, 12, 4, 13, 133, 134}
\* the top bits and the size field of a quantum header
QuantumTop(large) == IF large THEN {0, 1, 2, 3, 32, 63} ELSE 0 .. 3
QuantumSize(large) ==
    IF large THEN {0, LARGE_BLOCK - 2, LARGE_BLOCK - 1}
             ELSE {0, SMALL_BLOCK - 2, SMALL_BLOCK - 1}
\* the byte a Memset quantum names
FillByte == {0, 1, 255}

\* ErrorContext::slice_mut with End::Idx(i): slice.get_mut(start..i)
SliceIdxOk(len, start, i) == start <= i /\ i <= len
\* ErrorContext::slice_mut with End::Len(l): slice.get_mut(start..start + l)
SliceLenOk(len, start, l) == start + l <= len

\* the loop head of Extractor::read has a header for the next extract call:
\* either parse_header just ran, or bytes_written is inside a large block
HeaderReady ==
    \/ pc = "extract"
    \/ /\ pc = "loop"
       /\ bytes_written < buf_len
       /\ bytes_written % LARGE_BLOCK # 0

\* dst_bytes_left of Extractor::extract
dst_bytes_left == Min(buf_len - bytes_written, block_size(header))

\* Extractor::read, loop exit: the buffer is full and read returns Ok
ReadDone ==
    /\ UNCHANGED extractorRest
    /\ pc = "loop"
    /\ bytes_written >= buf_len
    /\ pc' = "done"
    /\ last' = [op |-> "read_done"]
    /\ UNCHANGED <<buf_len, bytes_written, header, quantum,
                   lzna_state, bitknit_state, reads, left>>

\* Extractor::parse_header, called when bytes_written is a multiple of 0x40000
ParseHeader ==
    /\ UNCHANGED extractorRest
    /\ pc = "loop"
    /\ bytes_written < buf_len
    /\ bytes_written % LARGE_BLOCK = 0
    /\ \/ \* read_bytes(2) fails: the input has ended
          /\ pc' = "err"
          /\ last' = [op |-> "parse_header", eof |-> TRUE, res |-> "err",
                      b1 |-> 0, b2 |-> 0, before |-> bytes_written]
          /\ UNCHANGED header
       \/ \E b1 \in HeaderByte0, b2 \in HeaderByte1 :
            /\ IF HeaderAccepted(b1, b2)
               THEN /\ header' = HeaderOf(b1, b2)
                    /\ pc' = "extract"
                    /\ last' = [op |-> "parse_header", eof |-> FALSE,
                                res |-> "ok", b1 |-> b1, b2 |-> b2,
                                before |-> bytes_written]
               ELSE /\ header' = header
                    /\ pc' = "err"
                    /\ last' = [op |-> "parse_header", eof |-> FALSE,
                                res |-> "err", b1 |-> b1, b2 |-> b2,
                                before |-> bytes_written]
    /\ UNCHANGED <<buf_len, bytes_written, quantum, lzna_state,
                   bitknit_state, reads, left>>

\* a loop of read that goes round again without adding count
AfterExtractNoAdvance(count) ==
    IF count = 0
    THEN /\ pc' = "done"
         /\ bytes_written' = bytes_written
    ELSE /\ pc' = "loop"
         /\ bytes_written' = bytes_written

\* how Extractor::read goes on after extract returned Ok(count)
AfterExtract(count) ==
    IF count = 0
    THEN /\ pc' = "done"
         /\ bytes_written' = bytes_written
    ELSE /\ pc' = "loop"
         /\ bytes_written' = bytes_written + count

\* Extractor::extract, branch `if self.header.uncompressed`
ExtractUncompressed ==
    /\ UNCHANGED extractorRest
    /\ HeaderReady
    /\ header.uncompressed
    /\ LET offset == bytes_written
           window == dst_bytes_left
           out_len == window - offset
           obs(res, eof, n) ==
               [op |-> "uncompressed", res |-> res, eof |-> eof,
                offset |-> offset, window |-> window,
                wfrom |-> offset, wto |-> offset + n, consumed |-> n,
                count |-> n]
       IN  IF ~SliceIdxOk(buf_len, offset, window)
           THEN /\ pc' = "err"
                /\ last' = obs("err", FALSE, 0)
                /\ UNCHANGED bytes_written
           ELSE \/ \* read_exact(out) fails: the input has ended
                   /\ out_len > 0
                   /\ pc' = "err"
                   /\ last' = obs("err", TRUE, 0)
                   /\ UNCHANGED bytes_written
                \/ /\ last' = obs("ok", FALSE, out_len)
                   /\ AfterExtract(out_len)
    /\ UNCHANGED <<buf_len, header, quantum, lzna_state, bitknit_state,
                   reads, left>>

\* Extractor::parse_whole_match: the distance two bytes v (big endian) and the
\* continuation bytes bs encode; bs ends with its only byte >= 0x80
RECURSIVE whole_match_x(_, _)
whole_match_x(bs, shift) ==
    IF bs = <<>> THEN 0
    ELSE IF Head(bs) < 128
         THEN (Head(bs) + 128) * (2 ^ shift) + whole_match_x(Tail(bs), shift + 7)
         ELSE (Head(bs) - 128) * (2 ^ shift)

parse_whole_match(v, bs) ==
    IF v < 32768
    THEN v + 32768 + whole_match_x(bs, 0) * 32768 + 1
    ELSE v - 32768 + 1

\* inputs of parse_whole_match: the two-byte value and the bytes after it
WholeMatchV == {0, 32767, 32768, 32769, 32768 + SMALL_BLOCK - 1, 65535}
WholeMatchBytes == { <<128>>, <<129>>, <<0, 128>> }

\* Extractor::parse_quantum_header, large blocks: what a 3-byte header whose
\* low 18 bits are size and whose bits 18..23 are top announces.  This variant
\* looks at bit 18 alone.
LargeQuantumKindBit18(top, size) ==
    IF size # LARGE_BLOCK - 1 THEN "Compressed"
    ELSE IF top % 2 = 1 THEN "Memset"
    ELSE "Invalid"

\* Extractor::parse_quantum_header, large blocks, as the code has it:
\*   if size != 0x3ffff {Compressed} else if (v >> 18) == 1 {Memset} else raise
LargeQuantumKind(top, size) ==
    IF size # LARGE_BLOCK - 1 THEN "Compressed"
    ELSE IF top = 1 THEN "Memset"
    ELSE "Invalid"

\* Extractor::parse_quantum_header, small blocks: 14-bit size, 2 bits of top
SmallQuantumKind(top, size) ==
    IF size # SMALL_BLOCK - 1 THEN "Compressed"
    ELSE CASE top = 0 -> "WholeMatch"
           [] top = 1 -> "Memset"
           [] top = 2 -> "Uncompressed"
           [] OTHER   -> "Invalid"

\* Extractor::parse_quantum_header, the first step of Extractor::extract for
\* a block that is not stored uncompressed
ParseQuantumHeader ==
    /\ UNCHANGED extractorRest
    /\ HeaderReady
    /\ ~header.uncompressed
    /\ LET large == block_size(header) = LARGE_BLOCK
           field == IF large THEN LARGE_BLOCK ELSE SMALL_BLOCK
           hlen  == IF large THEN 3 ELSE 2
           obs(res, eof, v, nxt, n) ==
               [op |-> "parse_quantum_header", large |-> large, res |-> res,
                eof |-> eof, v |-> v, next |-> nxt, consumed |-> n,
                before |-> bytes_written]
           fail(eof, v, consumed) ==
               /\ pc' = "err"
               /\ quantum' = [kind |-> "None"]
               /\ last' = obs("err", eof, v, -1, consumed)
           ok(q, v, nxt, consumed) ==
               /\ pc' = "body"
               /\ quantum' = q
               /\ last' = obs("ok", FALSE, v, nxt, consumed)
       IN  \/ fail(TRUE, 0, 0)
           \/ \E top \in QuantumTop(large), size \in QuantumSize(large) :
                LET v == top * field + size
                    kind == IF large THEN LargeQuantumKind(top, size)
                                     ELSE SmallQuantumKind(top, size)
                IN  CASE kind = "Compressed" ->
                           LET q == [kind |-> "Compressed",
                                     compressed_size |-> size + 1,
                                     flag1 |-> (top % 2 = 1),
                                     flag2 |-> ((top \div 2) % 2 = 1)]
                           IN  IF header.use_checksums
                               THEN \/ fail(TRUE, v, hlen)
                                    \/ ok(q, v, -1, hlen + 3)
                               ELSE ok(q, v, -1, hlen)
                      [] kind = "Memset" ->
                           \/ fail(TRUE, v, hlen)
                           \/ \E b \in FillByte :
                                 ok([kind |-> "Memset", value |-> b], v, b,
                                    hlen + 1)
                      [] kind = "WholeMatch" ->
                           \/ fail(TRUE, v, hlen)
                           \/ \E w \in WholeMatchV :
                                IF w < 32768
                                THEN \/ fail(TRUE, v, hlen + 2)
                                     \/ \E bs \in WholeMatchBytes :
                                          ok([kind |-> "WholeMatch",
                                              whole_match_distance |->
                                                  parse_whole_match(w, bs)],
                                             v, -1, hlen + 2 + Len(bs))
                                ELSE ok([kind |-> "WholeMatch",
                                         whole_match_distance |->
                                             parse_whole_match(w, <<>>)],
                                        v, -1, hlen + 2)
                      [] kind = "Uncompressed" ->
                           ok([kind |-> "Uncompressed"], v, -1, hlen)
                      [] OTHER -> fail(FALSE, v, hlen)
    /\ UNCHANGED <<buf_len, bytes_written, header, lzna_state, bitknit_state,
                   reads, left>>

\* how a decoder call made by Extractor::extract can end: Ok with bytes_read
\* equal to compressed_size, Ok with another count, Err, or a panic
DecodeResults == {"exact", "short", "err", "panic"}

\* a start state that is fresh for every quantum
StartStateAlwaysFresh(restart, state, fresh) == fresh

\* the decoder state a Bitknit / Lzna quantum starts from:
\*   if self.header.restart_decoder { self.state = Some(State::new()); ... }
StartState(restart, state, fresh) == IF restart THEN fresh ELSE state

\* a header that keeps its restart flag after the state was reset
AfterRestartKept(h) == h

\* the header after the restart branch: self.header.restart_decoder = false
\* (a flag that was not set stays so)
AfterRestart(h) == [h EXCEPT !.restart_decoder = FALSE]

\* a decoder that runs whatever the state is
UninitializedNever(state) == FALSE

\* self.lzna_state / self.bitknit_state is None:
\*   .as_mut().msg_of(&"Lzna uninitialized")?
Uninitialized(state) == state = NoState

\* a result check that takes any Ok for a success
AfterDecodeAnyOk(res, window) ==
    CASE res \in {"exact", "short"} -> AfterExtract(window)
      [] res = "panic" -> pc' = "panic" /\ bytes_written' = bytes_written
      [] OTHER         -> pc' = "err" /\ bytes_written' = bytes_written

\* the states a quantum that starts from s can leave the decoder in
Adapt(s) == {s, Min(s + 1, MaxAdapt)}

\* what Extractor::extract does with the result of the decoder call
AfterDecode(res, window) ==
    CASE res = "exact" -> AfterExtract(window)
      [] res = "panic" -> pc' = "panic" /\ bytes_written' = bytes_written
      [] OTHER         -> pc' = "err" /\ bytes_written' = bytes_written

\* Extractor::extract, QuantumHeader::Compressed: read the quantum and run
\* the decoder the block header names
ExtractCompressed ==
    /\ UNCHANGED extractorRest
    /\ pc = "body"
    /\ quantum.kind = "Compressed"
    /\ quantum' = [kind |-> "None"]
    /\ LET offset == bytes_written
           window == dst_bytes_left
           dec == header.decoder_type
           obs(res, ran, restart, start, prev, n) ==
               [op |-> "compressed", dec |-> dec, res |-> res, ran |-> ran,
                restart |-> restart, start |-> start, prev |-> prev,
                offset |-> offset, window |-> window,
                consumed |-> n]
       IN  \/ \* read_exact(input) fails: the input has ended
              /\ pc' = "err"
              /\ last' = obs("err", FALSE, FALSE, NoState, NoState, 0)
              /\ UNCHANGED <<bytes_written, header, lzna_state,
                             bitknit_state, left>>
           \/ CASE dec = "Lzna" ->
                       LET restart == header.restart_decoder
                           start == StartState(restart, lzna_state, LznaStateNew)
                       IN  /\ header' = AfterRestart(header)
                           /\ bitknit_state' = bitknit_state
                           /\ IF Uninitialized(start)
                              THEN /\ lzna_state' = start
                                   /\ left' = left
                                   /\ last' = obs("err", FALSE, restart, start,
                                                  left.Lzna, quantum.compressed_size)
                                   /\ AfterDecode("err", window)
                              ELSE \E res \in DecodeResults, end \in Adapt(start) :
                                   /\ lzna_state' = end
                                   /\ left' = [left EXCEPT !.Lzna = end]
                                   /\ last' = obs(res, TRUE, restart, start,
                                                  left.Lzna, quantum.compressed_size)
                                   /\ AfterDecode(res, window)
                  [] dec = "Bitknit" ->
                       LET restart == header.restart_decoder
                           start == StartState(restart, bitknit_state,
                                               BitknitStateNew)
                       IN  /\ header' = AfterRestart(header)
                           /\ lzna_state' = lzna_state
                           /\ IF Uninitialized(start)
                              THEN /\ bitknit_state' = start
                                   /\ left' = left
                                   /\ last' = obs("err", FALSE, restart, start,
                                                  left.Bitknit, quantum.compressed_size)
                                   /\ AfterDecode("err", window)
                              ELSE \E res \in DecodeResults, end \in Adapt(start) :
                                   /\ bitknit_state' = end
                                   /\ left' = [left EXCEPT !.Bitknit = end]
                                   /\ last' = obs(res, TRUE, restart, start,
                                                  left.Bitknit, quantum.compressed_size)
                                   /\ AfterDecode(res, window)
                  [] OTHER ->
                       \* Kraken, Mermaid, Leviathan: Core::decode_quantum
                       \E res \in DecodeResults :
                           /\ last' = obs(res, TRUE, FALSE, NoState, NoState,
                                          quantum.compressed_size)
                           /\ AfterDecode(res, window)
                           /\ UNCHANGED <<header, lzna_state, bitknit_state,
                                          left>>
    /\ UNCHANGED <<buf_len, reads>>

\* Extractor::extract, QuantumHeader::WholeMatch
ExtractWholeMatch ==
    /\ UNCHANGED extractorRest
    /\ pc = "body"
    /\ quantum.kind = "WholeMatch"
    /\ quantum' = [kind |-> "None"]
    /\ LET offset == bytes_written
           window == dst_bytes_left
           dist == quantum.whole_match_distance
           obs(res) == [op |-> "whole_match", res |-> res, offset |-> offset,
                        window |-> window, dist |-> dist]
       IN  IF dist > offset
           THEN /\ pc' = "err"
                /\ bytes_written' = bytes_written
                /\ last' = obs("err")
           ELSE /\ AfterExtract(window)
                /\ last' = obs("ok")
    /\ UNCHANGED <<buf_len, header, lzna_state, bitknit_state, reads, left>>

\* Extractor::extract, QuantumHeader::Memset
ExtractMemset ==
    /\ UNCHANGED extractorRest
    /\ pc = "body"
    /\ quantum.kind = "Memset"
    /\ quantum' = [kind |-> "None"]
    /\ LET offset == bytes_written
           window == dst_bytes_left
           obs(res) == [op |-> "memset", res |-> res, offset |-> offset,
                        window |-> window, value |-> quantum.value]
       IN  IF ~SliceLenOk(buf_len, offset, window)
           THEN /\ pc' = "err"
                /\ bytes_written' = bytes_written
                /\ last' = obs("err")
           ELSE /\ AfterExtract(window)
                /\ last' = obs("ok")
    /\ UNCHANGED <<buf_len, header, lzna_state, bitknit_state, reads, left>>

\* Extractor::extract, QuantumHeader::Uncompressed
ExtractQuantumUncompressed ==
    /\ UNCHANGED extractorRest
    /\ pc = "body"
    /\ quantum.kind = "Uncompressed"
    /\ quantum' = [kind |-> "None"]
    /\ LET offset == bytes_written
           window == dst_bytes_left
           obs(res) == [op |-> "quantum_uncompressed", res |-> res,
                        offset |-> offset, window |-> window]
       IN  IF ~SliceLenOk(buf_len, offset, window)
           THEN /\ pc' = "err"
                /\ last' = obs("err")
                /\ UNCHANGED bytes_written
           ELSE \/ \* read_exact(out) fails: the input has ended
                   /\ pc' = "err"
                   /\ last' = obs("err")
                   /\ UNCHANGED bytes_written
                \/ /\ last' = obs("ok")
                   /\ AfterExtract(window)
    /\ UNCHANGED <<buf_len, header, lzna_state, bitknit_state, reads, left>>

\* the caller calls Extractor::read again, with a buffer of its choice, after
\* a call that returned (Ok or Err); the session's fields persist
NewRead ==
    /\ UNCHANGED extractorRest
    /\ pc \in {"done", "err"}
    /\ reads < MaxReads
    /\ reads' = reads + 1
    /\ buf_len' \in BufLens
    /\ bytes_written' = 0
    /\ pc' = "loop"
    /\ last' = [op |-> "read"]
    /\ UNCHANGED <<header, quantum, lzna_state, bitknit_state, left>>

NextExtractor ==
    \/ ReadDone
    \/ ParseHeader
    \/ ExtractUncompressed
    \/ ParseQuantumHeader
    \/ ExtractCompressed
    \/ ExtractWholeMatch
    \/ ExtractMemset
    \/ ExtractQuantumUncompressed
    \/ NewRead

SpecExtractor == InitExtractor /\ [][NextExtractor]_vars

-----------------------------------------------------------------------------
(* Core::repeat_copy_64 and Core::copy_bytes inside one space *)

\* the extractor at rest
IdleExtractor ==
    /\ pc = "idle"
    /\ buf_len = 0
    /\ bytes_written = 0
    /\ header = DefaultHeader
    /\ quantum = [kind |-> "None"]
    /\ lzna_state = NoState
    /\ bitknit_state = NoState
    /\ reads = 0
    /\ left = [Lzna |-> NoState, Bitknit |-> NoState]
    /\ last = NoLast

\* buf.len() of a space held as a function on 0 .. len - 1
SpaceLen(buf) == Cardinality(DOMAIN buf)

\* usize::abs_diff
abs_diff(a, b) == IF a < b THEN b - a ELSE a - b

\* <[u8]>::copy_within(from..to, dest): a memmove of to - from bytes
copy_within(buf, from, to, dest) ==
    [i \in DOMAIN buf |->
        IF dest <= i /\ i < dest + (to - from) THEN buf[from + (i - dest)]
                                                ELSE buf[i]]

\* the loop of repeat_copy_64 taken in strides of 16 bytes
RECURSIVE repeat_chunks_16(_, _, _, _, _)
repeat_chunks_16(buf, dest, src, bytes, n) ==
    IF n >= bytes THEN buf
    ELSE repeat_chunks_16(
             copy_within(buf, src + n, src + Min(bytes, n + 16), dest + n),
             dest, src, bytes, n + 16)

\* the loop of repeat_copy_64:
\*   while n < bytes { buf.copy_within(src+n..src+bytes.min(n+8), dest+n); n += 8 }
RECURSIVE repeat_chunks(_, _, _, _, _)
repeat_chunks(buf, dest, src, bytes, n) ==
    IF n >= bytes THEN buf
    ELSE repeat_chunks(
             copy_within(buf, src + n, src + Min(bytes, n + 8), dest + n),
             dest, src, bytes, n + 8)

\* Core::copy_bytes with dest and src in the same (output) space
copy_bytes(buf, dest, src, n) ==
    IF dest = src THEN [res |-> "ok", buf |-> buf]
    ELSE IF Max(src, dest) + n > SpaceLen(buf)
         THEN [res |-> "err", buf |-> buf]
    ELSE [res |-> "ok", buf |-> copy_within(buf, src, src + n, dest)]

\* Core::repeat_copy_64 with dest and src in the same (output) space
repeat_copy_64(buf, dest, src, bytes) ==
    IF bytes < abs_diff(src, dest) THEN copy_bytes(buf, dest, src, bytes)
    ELSE IF Max(src, dest) + bytes > SpaceLen(buf)
         THEN [res |-> "err", buf |-> buf]
    ELSE [res |-> "ok", buf |-> repeat_chunks(buf, dest, src, bytes, 0)]

\* the contents of the space before the call: every byte differs from its
\* neighbours, so that a copy shows where each byte came from
CopyBufs == { [i \in 0 .. CopyLen - 1 |-> (7 * i + 1) % 256],
              [i \in 0 .. CopyLen - 1 |-> (i * i + 3) % 256] }

InitCopy ==
    /\ IdleExtractor
    /\ IdleLz
    /\ IdleQuantum
    /\ IdleSpace
    /\ IdleRange
    /\ IdleNibble
    /\ IdleHuff
    /\ IdleO1
    /\ IdleReverse
    /\ IdleRecent
    /\ IdleParser
    /\ IdleHistory
    /\ IdleEmit
    /\ IdleMulti
    /\ IdleRle
    /\ IdleWhole
    /\ IdleBitknit
    /\ copy_pc = "call"
    /\ copy_buf \in CopyBufs
    /\ copy_args \in [dest : 0 .. CopyLen, src : 0 .. CopyLen,
                       bytes : 0 .. CopyLen]
    /\ copy_res = "none"
    /\ copy_old = copy_buf

\* the call returns
RepeatCopy ==
    /\ UNCHANGED copyRest
    /\ copy_pc = "call"
    /\ LET r == repeat_copy_64(copy_buf, copy_args.dest, copy_args.src,
                               copy_args.bytes)
       IN  /\ copy_buf' = r.buf
           /\ copy_res' = r.res
    /\ copy_pc' = "ret"
    /\ UNCHANGED <<copy_args, copy_old>>

NextCopy == RepeatCopy

SpecCopy == InitCopy /\ [][NextCopy]_vars

-----------------------------------------------------------------------------
(* One LZ chunk: KrakenLzTable::process_lz_runs, LeviathanLzTable::process_lz *)

\* entries of the offset stream as Core::unpack_offsets leaves them: 8 - offs
\* with offs >= 8 (new way) or -distance (old way); the last lies before the
\* start of the output
OffsetValues == {0, -8, -(2 * LzWindow + 1)}
\* entries of the length stream
LenValues == {3, 2 * LzWindow + 8}
\* what Core::get_int reads past the end of a stream in scratch: zero fill
\* or an entry of the stream that follows
OverRead == {0, 3}

\* recent_offs at the start of process_lz_runs / process_lz
RecentInit(engine) ==
    IF engine = "Kraken"
    THEN [i \in 0 .. 6 |-> IF i \in 3 .. 5 THEN -8 ELSE 0]
    ELSE [i \in 0 .. 15 |-> IF i \in 8 .. 14 THEN -8 ELSE 0]

\* Core::new and the entry of process_lz_runs: the chunk at offset 0 starts
\* 8 bytes in, its first 8 bytes having been copied by read_lz_table
InitLz ==
    /\ IdleExtractor
    /\ IdleCopy
    /\ IdleQuantum
    /\ IdleSpace
    /\ IdleRange
    /\ IdleNibble
    /\ IdleHuff
    /\ IdleO1
    /\ IdleReverse
    /\ IdleRecent
    /\ IdleParser
    /\ IdleHistory
    /\ IdleEmit
    /\ IdleMulti
    /\ IdleRle
    /\ IdleWhole
    /\ IdleBitknit
    /\ lz_pc = "loop"
    /\ \E em \in {<<"Kraken", 0>>, <<"Kraken", 1>>, <<"Leviathan", 1>>} :
          /\ lz_engine = em[1]
          /\ lz_mode = em[2]
    /\ lz_out_len = 2 * LzWindow
    /\ \E offset \in {0, LzWindow} :
          /\ lz_dst = IF offset = 0 THEN 8 ELSE offset
          /\ lz_dst_end = offset + LzWindow
    /\ lz_recent = RecentInit(lz_engine)
    /\ lz_offset = -8
    /\ lz_cmd \in 0 .. MaxCmds
    /\ lz_offs \in 0 .. 1
    /\ lz_len \in 0 .. 1
    /\ lz_len_total = lz_len
    /\ lz_len_back = lz_len
    /\ lz_lit \in {0, 4, 8}
    /\ lz_lit_room \in {lz_lit, lz_lit + 8}
    /\ lz_obs = NoLast

\* impl Add<i32> for Pointer: index.checked_add_signed(rhs).unwrap()
PointerAddOk(index, rhs) == index + rhs >= 0

\* Core::copy_bytes from another space into the output: both slices must
\* lie inside their spaces
CrossCopyOk(dst, n, room) == dst + n <= lz_out_len /\ n <= room

\* the literal run of a Kraken command or of the chunk's tail:
\*   mode 0: core.copy_64_add(dst, lit_stream, dst + last_offset, litlen)
\*   mode 1: core.copy_bytes(dst, lit_stream, litlen)
KrakenLiterals(dst, litlen) ==
    IF lz_mode = 0
    THEN IF ~PointerAddOk(dst, lz_offset) THEN "panic"
         ELSE IF litlen = 0 THEN "ok"
         ELSE IF /\ litlen <= lz_lit_room
                 /\ dst + litlen <= lz_out_len
                 /\ dst + lz_offset + litlen <= lz_out_len
              THEN "ok" ELSE "err"
    ELSE IF CrossCopyOk(dst, litlen, lz_lit_room) THEN "ok" ELSE "err"

\* Core::repeat_copy_64 inside the output space succeeds
RepeatCopyOk(dest, src, bytes) == Max(src, dest) + bytes <= lz_out_len

\* the step ends the chunk with an error or a panic
LzStop(res, site) ==
    /\ lz_pc' = res
    /\ lz_obs' = [op |-> res, site |-> site, engine |-> lz_engine]
    /\ UNCHANGED <<lz_engine, lz_mode, lz_out_len, lz_dst, lz_dst_end,
                   lz_recent, lz_offset, lz_cmd, lz_offs, lz_len,
                   lz_len_total, lz_len_back, lz_lit, lz_lit_room>>

\* one iteration of the loop of KrakenLzTable::process_lz_runs
KrakenCommand ==
    /\ UNCHANGED lzRest
    /\ lz_pc = "loop"
    /\ lz_engine = "Kraken"
    /\ lz_cmd > 0
    /\ \E litf \in {0, 1, 3}, offs_index \in {0, 2, 3}, mlf \in {0, 15},
          new_off \in OffsetValues, long \in LenValues, over \in OverRead :
        LET next_long_length == IF lz_len > 0 THEN long ELSE over
            litlen == IF litf = 3 THEN next_long_length ELSE litf
            len1 == IF litf = 3 THEN lz_len - 1 ELSE lz_len
            rec6 == [lz_recent EXCEPT
                        ![6] = IF lz_offs > 0 THEN new_off ELSE over]
            lits == KrakenLiterals(lz_dst, litlen)
            dst1 == lz_dst + litlen
            offset == rec6[offs_index + 3]
            rec == [copy_within(rec6, offs_index, offs_index + 3,
                                offs_index + 1) EXCEPT ![3] = offset]
            matchlen == IF mlf # 15 THEN mlf + 2
                        ELSE 14 + (IF len1 > 0 THEN long ELSE over)
        IN  IF lits # "ok" THEN LzStop(lits, "literals")
            ELSE IF ~PointerAddOk(dst1, offset) THEN LzStop("panic", "copyfrom")
            ELSE IF ~RepeatCopyOk(dst1, dst1 + offset, matchlen)
                 THEN LzStop("err", "match")
            ELSE /\ lz_dst' = dst1 + matchlen
                 /\ lz_recent' = rec
                 /\ lz_offset' = offset
                 /\ lz_cmd' = lz_cmd - 1
                 /\ lz_offs' = IF offs_index = 3 THEN lz_offs - 1 ELSE lz_offs
                 /\ lz_len' = IF mlf = 15 THEN len1 - 1 ELSE len1
                 /\ lz_lit' = lz_lit - litlen
                 /\ lz_lit_room' = lz_lit_room - litlen
                 /\ lz_obs' = [op |-> "match", engine |-> lz_engine,
                               d |-> -offset, produced |-> dst1,
                               n |-> matchlen, index |-> offs_index]
                 /\ UNCHANGED <<lz_pc, lz_engine, lz_mode, lz_out_len,
                                lz_dst_end, lz_len_total, lz_len_back>>

\* the end of KrakenLzTable::process_lz_runs: the stream checks and the
\* final literals
KrakenFinish ==
    /\ UNCHANGED lzRest
    /\ lz_pc = "loop"
    /\ lz_engine = "Kraken"
    /\ lz_cmd = 0
    /\ LET final_len == lz_dst_end - lz_dst
       IN  IF lz_offs # 0 THEN LzStop("err", "offs_stream")
           ELSE IF lz_len # 0 THEN LzStop("err", "len_stream")
           ELSE IF final_len < 0 THEN LzStop("err", "dst_end")
           ELSE IF lz_lit < 0 \/ final_len # lz_lit
                THEN LzStop("err", "lit_stream")
           ELSE IF KrakenLiterals(lz_dst, final_len) # "ok"
                THEN LzStop(KrakenLiterals(lz_dst, final_len), "literals")
           ELSE /\ lz_pc' = "ok"
                /\ lz_dst' = lz_dst + final_len
                /\ lz_lit' = lz_lit - final_len
                /\ lz_lit_room' = lz_lit_room - final_len
                /\ lz_obs' = [op |-> "finish", engine |-> lz_engine,
                              tail |-> final_len, out_left |-> final_len,
                              lit_left |-> lz_lit]
                /\ UNCHANGED <<lz_engine, lz_mode, lz_out_len, lz_dst_end,
                               lz_recent, lz_offset, lz_cmd, lz_offs, lz_len,
                               lz_len_total, lz_len_back>>

\* one iteration of the loop of LeviathanLzTable::process_lz in raw-literal
\* mode (LeviathanModeRaw), single command stream.  wraps: the build lets
\* usize arithmetic wrap (release) instead of panicking (debug).
LeviathanCommand ==
    /\ UNCHANGED lzRest
    /\ lz_pc = "loop"
    /\ lz_engine = "Leviathan"
    /\ lz_cmd > 0
    /\ \E litf \in {0, 1, 3}, offs_index \in {0, 6, 7}, mlf \in {0, 7},
          new_off \in OffsetValues, long \in LenValues, wraps \in BOOLEAN :
        LET rec15 == [lz_recent EXCEPT
                         ![15] = IF lz_offs > 0 THEN new_off ELSE 0]
            lit_ok == litf # 3 \/ lz_len > 0
            litlen == IF litf = 3 THEN long ELSE litf
            len1 == IF litf = 3 THEN lz_len - 1 ELSE lz_len
            dst1 == lz_dst + litlen
            offset == rec15[offs_index + 8]
            rec == [copy_within(rec15, offs_index, offs_index + 8,
                                offs_index + 1) EXCEPT ![8] = offset]
            offs1 == IF offs_index = 7 /\ lz_offs > 0 THEN lz_offs - 1
                     ELSE lz_offs
            matchlen == IF mlf + 2 = 9 THEN long + 6 ELSE mlf + 2
            room == lz_dst_end - dst1
        IN  IF ~lit_ok THEN LzStop("err", "len_stream")
            ELSE IF ~CrossCopyOk(lz_dst, litlen, lz_lit_room)
                 THEN LzStop("err", "literals")
            ELSE IF ~PointerAddOk(dst1, offset) THEN LzStop("panic", "copyfrom")
            ELSE IF mlf + 2 = 9 /\ lz_len_back = 0
                 THEN LzStop("panic", "len_stream_end")
            ELSE IF mlf + 2 = 9 /\ room < 0 THEN LzStop("err", "dst_end")
            ELSE IF mlf + 2 = 9 /\ room < 8 /\ ~wraps
                 THEN LzStop("panic", "room")
            ELSE IF mlf + 2 = 9 /\ room >= 8 /\ matchlen > room - 8
                 THEN LzStop("err", "matchlen")
            ELSE IF ~RepeatCopyOk(dst1, dst1 + offset, matchlen)
                 THEN LzStop("err", "match")
            ELSE /\ lz_dst' = dst1 + matchlen
                 /\ lz_recent' = rec
                 /\ lz_offset' = offset
                 /\ lz_cmd' = lz_cmd - 1
                 /\ lz_offs' = offs1
                 /\ lz_len' = len1
                 /\ lz_len_back' = IF mlf + 2 = 9 THEN lz_len_back - 1
                                   ELSE lz_len_back
                 /\ lz_lit' = lz_lit - litlen
                 /\ lz_lit_room' = lz_lit_room - litlen
                 /\ lz_obs' = [op |-> "match", engine |-> lz_engine,
                               d |-> -offset, produced |-> dst1,
                               n |-> matchlen, index |-> offs_index]
                 /\ UNCHANGED <<lz_pc, lz_engine, lz_mode, lz_out_len,
                                lz_dst_end, lz_len_total>>

\* the end of LeviathanLzTable::process_lz: the stream checks and
\* LeviathanModeRaw::copy_final_literals
LeviathanFinish ==
    /\ UNCHANGED lzRest
    /\ lz_pc = "loop"
    /\ lz_engine = "Leviathan"
    /\ lz_cmd = 0
    /\ LET final_len == lz_dst_end - lz_dst
       IN  IF lz_offs # 0 THEN LzStop("err", "offs_stream")
           ELSE IF lz_len # lz_len_total - lz_len_back
                THEN LzStop("err", "len_stream")
           ELSE IF final_len < 0 THEN LzStop("err", "dst_end")
           ELSE IF final_len > 0 /\ ~CrossCopyOk(lz_dst, final_len, lz_lit_room)
                THEN LzStop("err", "literals")
           ELSE /\ lz_pc' = "ok"
                /\ lz_dst' = lz_dst + final_len
                /\ lz_lit' = lz_lit - final_len
                /\ lz_lit_room' = lz_lit_room - final_len
                /\ lz_obs' = [op |-> "finish", engine |-> lz_engine,
                              tail |-> final_len, out_left |-> final_len,
                              lit_left |-> lz_lit]
                /\ UNCHANGED <<lz_engine, lz_mode, lz_out_len, lz_dst_end,
                               lz_recent, lz_offset, lz_cmd, lz_offs, lz_len,
                               lz_len_total, lz_len_back>>

NextLz ==
    \/ KrakenCommand
    \/ KrakenFinish
    \/ LeviathanCommand
    \/ LeviathanFinish

SpecLz == InitLz /\ [][NextLz]_vars


-----------------------------------------------------------------------------
(***************************************************************************)
(* Core::decode_quantum with decode_bytes and decode_recursive             *)
(* (src/src/core.rs).  The chunk loop runs at the bottom of q_stack; each  *)
(* activation of decode_recursive is one frame on it.                      *)
(***************************************************************************)

\* compressed sizes the extractor may hand to decode_quantum
InputLens == {0, 4, 11, MaxInput}

\* lengths of the quantum's output window (dst_bytes_left)
WindowLens == {1, 8, CHUNK + 8}

\* chunk types of decode_bytes, (byte >> 4) & 7: stored, tans, huffman,
\* recursive and one that no decoder takes
ChunkTypes == {0, 1, 4, 5, 6}

\* what an entropy decoder (type12, rle, tans, multi_array) returns
EntropyResults == {"ok", "err"}

\* what algorithm.process returns
ProcessResults == {"ok", "err", "panic"}

\* encoded source sizes tried against the input bytes after the header
SrcSizes(rest) ==
    {x \in {0, 6, rest - 2, rest, rest + 1, LARGE_BLOCK} : x >= 0}

\* encoded output sizes tried against room output bytes
DstSizes(room) ==
    {x \in {0, 1, room - 1, room, room + 1} : x >= 0}

InitQuantum ==
    /\ IdleExtractor
    /\ IdleCopy
    /\ IdleLz
    /\ IdleSpace
    /\ IdleRange
    /\ IdleNibble
    /\ IdleHuff
    /\ IdleO1
    /\ IdleReverse
    /\ IdleRecent
    /\ IdleParser
    /\ IdleHistory
    /\ IdleEmit
    /\ IdleMulti
    /\ IdleRle
    /\ IdleWhole
    /\ IdleBitknit
    /\ q_pc = "loop"
    /\ q_src_left \in InputLens
    /\ q_start \in {0, LARGE_BLOCK}
    /\ q_dst = q_start
    /\ \E w \in WindowLens : q_dst_end = q_start + w
    /\ q_stored = 0
    /\ q_stack = <<>>
    /\ q_obs = NoLast

\* the innermost activation of decode_recursive
frame == q_stack[Len(q_stack)]

\* min(dst_end - dst, 0x20000)
dst_count == Min(q_dst_end - q_dst, CHUNK)

\* the sizes a header of the given form can encode
HeaderEncodable(short, chunk_type, src_size, dst_size) ==
    IF chunk_type = 0
    THEN /\ src_size < (IF short THEN 4096 ELSE 1048576)
         /\ dst_size = src_size
    ELSE IF short
         THEN /\ src_size < 1024
              /\ dst_size > src_size
              /\ dst_size <= src_size + 1024
         ELSE /\ src_size < 262144
              /\ dst_size >= 1
              /\ dst_size <= 262144

\* the header checks of decode_bytes; hdr is the number of header bytes
ChunkHeader(avail, short, chunk_type, src_size, dst_size, output_size) ==
    IF avail < 2 THEN [res |-> "err", hdr |-> 0]
    ELSE IF chunk_type = 0
    THEN LET hdr == IF short THEN 2 ELSE 3
         IN  IF /\ ~short
                /\ \/ avail < 3
                   \/ src_size >= 262144
             THEN [res |-> "err", hdr |-> hdr]
             ELSE IF \/ src_size > output_size
                     \/ src_size > avail - hdr
                  THEN [res |-> "err", hdr |-> hdr]
                  ELSE [res |-> "ok", hdr |-> hdr]
    ELSE LET hdr == IF short THEN 3 ELSE 5
         IN  IF avail < hdr THEN [res |-> "err", hdr |-> hdr]
             ELSE IF ~short /\ ~(src_size < dst_size)
                  THEN [res |-> "err", hdr |-> hdr]
                  ELSE IF \/ src_size > avail - hdr
                          \/ dst_size > output_size
                       THEN [res |-> "err", hdr |-> hdr]
                       ELSE [res |-> "ok", hdr |-> hdr]

\* decode_quantum or a decoder under it returns without Ok
QStop(res, site) ==
    /\ q_pc' = res
    /\ q_obs' = [op |-> res, site |-> site]
    /\ UNCHANGED <<q_src_left, q_start, q_dst, q_dst_end, q_stored, q_stack>>

\* decode_bytes returns Ok(consumed) with *decoded_size = decoded, having
\* stored the given number of bytes; its caller, whose activations are
\* stack, carries on
DeliverTo(stack, consumed, decoded, stored, site) ==
    IF stack # <<>>
    THEN /\ q_stack' = [stack EXCEPT ![Len(stack)] =
                            [@ EXCEPT !.n = @ - 1,
                                      !.src = @ - consumed,
                                      !.out = @ - decoded]]
         /\ q_stored' = q_stored + stored
         /\ q_obs' = [op |-> "sub", site |-> site]
         /\ UNCHANGED <<q_pc, q_src_left, q_start, q_dst, q_dst_end>>
    ELSE IF decoded # dst_count
         THEN /\ q_pc' = "err"
              /\ q_obs' = [op |-> "err", site |-> "written_bytes"]
              /\ q_stack' = stack
              /\ UNCHANGED <<q_src_left, q_start, q_dst, q_dst_end, q_stored>>
         ELSE /\ q_src_left' = q_src_left - consumed
              /\ q_dst' = q_dst + dst_count
              /\ q_stored' = q_stored + stored
              /\ q_stack' = stack
              /\ q_obs' = [op |-> "chunk", site |-> site]
              /\ UNCHANGED <<q_pc, q_start, q_dst_end>>

Deliver(consumed, decoded, stored, site) ==
    DeliverTo(q_stack, consumed, decoded, stored, site)

\* the caller of decode_bytes is ready to call it
DecodeBytesReady ==
    /\ q_pc = "loop"
    /\ IF q_stack = <<>>
       THEN q_dst < q_dst_end /\ q_src_left >= 4
       ELSE frame.n > 0

\* the input bytes and the output room decode_bytes is given
avail_in == IF q_stack = <<>> THEN q_src_left ELSE frame.src
output_room == IF q_stack = <<>> THEN dst_count ELSE frame.out

\* the first byte may have bit 7 set only below decode_recursive: the chunk
\* loop calls decode_bytes only when bit 23 of the chunk header is clear
ShortForms == IF q_stack = <<>> THEN {FALSE} ELSE BOOLEAN


\* header bytes of a chunk of the given form
HeaderLen(short, chunk_type) ==
    IF chunk_type = 0 THEN (IF short THEN 2 ELSE 3)
                      ELSE (IF short THEN 3 ELSE 5)

\* the loop of decode_quantum ends: Ok(self.src.index)
QuantumDone ==
    /\ UNCHANGED quantumRest
    /\ q_pc = "loop"
    /\ q_stack = <<>>
    /\ q_dst >= q_dst_end
    /\ q_pc' = "ok"
    /\ q_obs' = [op |-> "return", site |-> "decode_quantum"]
    /\ UNCHANGED <<q_src_left, q_start, q_dst, q_dst_end, q_stored, q_stack>>

\* assert_le(4, src_end - self.src) fails
ChunkTruncated ==
    /\ UNCHANGED quantumRest
    /\ q_pc = "loop"
    /\ q_stack = <<>>
    /\ q_dst < q_dst_end
    /\ q_src_left < 4
    /\ QStop("err", "chunkhdr")

\* a chunk whose header has bit 23 set: the LZ engine or a raw copy
ChunkLz ==
    /\ UNCHANGED quantumRest
    /\ q_pc = "loop"
    /\ q_stack = <<>>
    /\ q_dst < q_dst_end
    /\ q_src_left >= 4
    /\ \E src_used \in SrcSizes(q_src_left - 3), mode \in 0 .. 1 :
         IF src_used > q_src_left - 3
         THEN QStop("err", "src_used")
         ELSE IF src_used < dst_count
              THEN \E r \in ProcessResults :
                     IF r = "ok"
                     THEN /\ q_src_left' = q_src_left - (3 + src_used)
                          /\ q_dst' = q_dst + dst_count
                          /\ q_stored' = q_stored + dst_count
                          /\ q_obs' = [op |-> "chunk", site |-> "process"]
                          /\ UNCHANGED <<q_pc, q_start, q_dst_end, q_stack>>
                     ELSE QStop(r, "process")
              ELSE IF src_used > dst_count \/ mode # 0
                   THEN QStop("err", "bad data")
                   ELSE /\ q_src_left' = q_src_left - (3 + src_used)
                        /\ q_dst' = q_dst + dst_count
                        /\ q_stored' = q_stored + dst_count
                        /\ q_obs' = [op |-> "chunk", site |-> "copy_bytes"]
                        /\ UNCHANGED <<q_pc, q_start, q_dst_end, q_stack>>

\* decode_bytes on a chunk of type 0: the bytes are stored as they are.
\* With force_memmove they are copied to the output; without it (the call
\* from the chunk loop) the local pointer out is redirected to the input
\* and nothing is copied.
DecodeBytesStored ==
    /\ UNCHANGED quantumRest
    /\ DecodeBytesReady
    /\ \E short \in ShortForms :
       \E src_size \in SrcSizes(avail_in - HeaderLen(short, 0)) :
         /\ HeaderEncodable(short, 0, src_size, src_size)
         /\ LET h == ChunkHeader(avail_in, short, 0, src_size, src_size,
                                 output_room)
                force_memmove == q_stack # <<>>
            IN  IF h.res = "err"
                THEN QStop("err", "decode_bytes")
                ELSE Deliver(h.hdr + src_size, src_size,
                             IF force_memmove THEN src_size ELSE 0,
                             "stored")

\* decode_bytes on a chunk of type 1 to 4: tans, huffman or rle
DecodeBytesEntropy ==
    /\ UNCHANGED quantumRest
    /\ DecodeBytesReady
    /\ \E short \in ShortForms, chunk_type \in ChunkTypes \ {0, 5} :
       \E src_size \in SrcSizes(avail_in - HeaderLen(short, chunk_type)),
          dst_size \in DstSizes(output_room), r \in EntropyResults :
         /\ HeaderEncodable(short, chunk_type, src_size, dst_size)
         /\ LET h == ChunkHeader(avail_in, short, chunk_type, src_size,
                                 dst_size, output_room)
            IN  IF h.res = "err"
                THEN QStop("err", "decode_bytes")
                ELSE IF chunk_type > 5
                     THEN QStop("err", "chunk_type")
                     ELSE IF r = "err"
                          THEN QStop("err", "entropy")
                          ELSE Deliver(h.hdr + src_size, dst_size, dst_size,
                                       "entropy")

\* decode_bytes on a chunk of type 5: decode_recursive starts
DecodeBytesRecursive ==
    /\ UNCHANGED quantumRest
    /\ DecodeBytesReady
    /\ \E short \in ShortForms :
       \E src_size \in SrcSizes(avail_in - HeaderLen(short, 5)),
          dst_size \in DstSizes(output_room), n \in 1 .. 3,
          how \in {"loop"} \cup EntropyResults :
         /\ HeaderEncodable(short, 5, src_size, dst_size)
         /\ LET h == ChunkHeader(avail_in, short, 5, src_size, dst_size,
                                 output_room)
            IN  IF h.res = "err"
                THEN QStop("err", "decode_bytes")
                ELSE IF src_size < 6 \/ n < 2
                     THEN QStop("err", "decode_recursive")
                     ELSE IF how # "loop"
                          THEN IF how = "err"
                               THEN QStop("err", "decode_multi_array")
                               ELSE Deliver(h.hdr + src_size, dst_size,
                                            dst_size, "multi_array")
                          ELSE /\ q_stack' = Append(q_stack,
                                    [n |-> n, src |-> src_size - 1,
                                     out |-> dst_size,
                                     cost |-> h.hdr + src_size,
                                     size |-> dst_size])
                               /\ q_obs' = [op |-> "enter",
                                            site |-> "decode_recursive"]
                               /\ UNCHANGED <<q_pc, q_src_left, q_start,
                                              q_dst, q_dst_end, q_stored>>

\* the loop of decode_recursive has run n times: it returns to the
\* decode_bytes that called it, and that one to its caller
RecursiveReturn ==
    /\ UNCHANGED quantumRest
    /\ q_pc = "loop"
    /\ q_stack # <<>>
    /\ frame.n = 0
    /\ IF frame.out # 0
       THEN QStop("err", "output_end")
       ELSE IF frame.src # 0
            THEN QStop("err", "src_used")
            ELSE DeliverTo(SubSeq(q_stack, 1, Len(q_stack) - 1),
                           frame.cost, frame.size, 0, "recursive")

NextQuantum ==
    \/ QuantumDone
    \/ ChunkTruncated
    \/ ChunkLz
    \/ DecodeBytesStored
    \/ DecodeBytesEntropy
    \/ DecodeBytesRecursive
    \/ RecursiveReturn

SpecQuantum == InitQuantum /\ [][NextQuantum]_vars


-----------------------------------------------------------------------------
(* Properties of the LZ loops, checked under SpecLz *)

\* the recent-offset slots an engine can still select
LiveSlots == IF lz_engine = "Kraken" THEN 3 .. 5 ELSE 8 .. 14

\* C2: no step of an LZ engine panics: whatever the streams hold, the
\* command loop ends with success or with a structured error.
C2_NoPanic == lz_pc # "panic"

\* C4: every match an LZ engine emits uses a distance d with
\* 1 <= d <= bytes already produced, and every live entry of the
\* recent-offset table is such a distance at all times.
C4_DistanceValid ==
    /\ lz_obs.op = "match"
         => /\ 1 <= lz_obs.d
            /\ lz_obs.d <= lz_obs.produced
    /\ lz_pc \in {"loop", "ok"}
         => \A i \in LiveSlots : /\ 1 <= -lz_recent[i]
                                 /\ -lz_recent[i] <= lz_dst

\* C5: a chunk is accepted only if the command, offset, length and literal
\* streams have been consumed exactly to their ends and the tail literal
\* run equals both the remaining output space and the remaining literals.
C5_StreamsConsumed ==
    lz_pc = "ok"
      => /\ lz_cmd = 0
         /\ lz_offs = 0
         /\ lz_len = IF lz_engine = "Kraken" THEN 0
                     ELSE lz_len_total - lz_len_back
         /\ lz_lit = 0
         /\ lz_obs.tail = lz_obs.out_left
         /\ lz_obs.tail = lz_obs.lit_left

-----------------------------------------------------------------------------
(* Properties of decode_quantum, checked under SpecQuantum *)

\* C1: when decode_quantum succeeds the write cursor is at the end of the
\* quantum's window and exactly the window's bytes have been written.
C1_WindowWritten ==
    q_pc = "ok"
      => /\ q_dst = q_dst_end
         /\ q_stored = q_dst_end - q_start


-----------------------------------------------------------------------------
(***************************************************************************)
(* Termination.  One behaviour is one call running to its end: a call of   *)
(* Extractor::read, of Core::decode_quantum or of an LZ command loop.  The *)
(* code runs each of them sequentially and without waiting, so a step that *)
(* is enabled is eventually taken: weak fairness of the next-step action.  *)
(***************************************************************************)

InitTerm ==
    \/ InitExtractor
    \/ InitQuantum
    \/ InitLz

NextTerm ==
    \/ NextExtractor
    \/ NextQuantum
    \/ NextLz

SpecTerm == InitTerm /\ [][NextTerm]_vars /\ WF_vars(NextTerm)

\* no call is under way: each machine is at rest or has returned
Terminated ==
    /\ pc \in {"idle", "done", "err", "panic"}
    /\ q_pc \in {"idle", "ok", "err", "panic"}
    /\ lz_pc \in {"idle", "ok", "err", "panic"}

-----------------------------------------------------------------------------
(* Properties of the framing layer, checked under SpecExtractor *)

\* C3: an LZNA or Bitknit quantum decoded under restart_decoder = 1 starts
\* from the fresh state; one decoded without restart starts from the state
\* the previous quantum of that decoder left behind.
C3_RestartOrCarry ==
    (/\ last.op = "compressed"
     /\ last.dec \in {"Lzna", "Bitknit"}
     /\ last.ran)
    => /\ last.start # NoState
       /\ last.start = IF last.restart
                       THEN (IF last.dec = "Lzna" THEN LznaStateNew
                                                  ELSE BitknitStateNew)
                       ELSE last.prev

\* C3 witness: a quantum without restart started from an adapted state
C3_Witness ==
    /\ last.op = "compressed"
    /\ last.dec = "Lzna"
    /\ last.ran
    /\ ~last.restart
    /\ last.prev >= 1
    /\ last.start = last.prev

\* C7: every block with uncompressed = 1, at whatever offset of the output,
\* fills its window with the next raw input bytes and advances the byte
\* count by the window length (given the input holds that many bytes).
C7_UncompressedFillsWindow ==
    (last.op = "uncompressed" /\ ~last.eof)
    => /\ last.res = "ok"
       /\ last.wfrom = last.offset
       /\ last.wto = last.offset + last.window
       /\ last.consumed = last.window
       /\ last.count = last.window

\* C8: a block header is accepted only if the low nibble of byte 0 is 0xC,
\* bits 4-5 of byte 0 are zero and the low 7 bits of byte 1 name a decoder;
\* otherwise the read fails and no output byte is written for that block.
C8_HeaderAccepted ==
    (last.op = "parse_header" /\ ~last.eof)
    => LET good == /\ last.b1 % 16 = 12
                   /\ (last.b1 \div 16) % 4 = 0
                   /\ (last.b2 % 128) \in {5, 6, 10, 11, 12}
       IN  /\ (last.res = "ok") <=> good
           /\ good => pc = "extract"
           /\ ~good => /\ pc = "err"
                       /\ bytes_written = last.before

\* C8 witness: a header with the right low nibble and a reserved bit set
\* was rejected
C8_Witness ==
    /\ last.op = "parse_header"
    /\ ~last.eof
    /\ last.b1 % 16 = 12
    /\ (last.b1 \div 16) % 4 # 0
    /\ last.res = "err"
    /\ pc = "err"

\* C9 as stated: a large-block quantum header is a Memset with the next
\* byte when size = 0x3FFFF and bit 18 is set, and in every other case a
\* Compressed quantum of size + 1 bytes.
C9_MemsetElseCompressed ==
    (last.op = "parse_quantum_header" /\ last.large /\ ~last.eof)
    => LET size == last.v % LARGE_BLOCK
           bit18 == (last.v \div LARGE_BLOCK) % 2
       IN  IF size = LARGE_BLOCK - 1 /\ bit18 = 1
           THEN /\ last.res = "ok"
                /\ quantum.kind = "Memset"
                /\ quantum.value = last.next
           ELSE /\ last.res = "ok"
                /\ quantum.kind = "Compressed"
                /\ quantum.compressed_size = size + 1

\* C9 amended: size # 0x3FFFF gives a Compressed quantum of size + 1 bytes;
\* size = 0x3FFFF with bits 18..23 equal to 1 gives a Memset with the next
\* byte; every other header with size = 0x3FFFF is rejected.
C9_MemsetCompressedOrError ==
    (last.op = "parse_quantum_header" /\ last.large /\ ~last.eof)
    => LET size == last.v % LARGE_BLOCK
           top == last.v \div LARGE_BLOCK
       IN  CASE size # LARGE_BLOCK - 1 ->
                  /\ last.res = "ok"
                  /\ quantum.kind = "Compressed"
                  /\ quantum.compressed_size = size + 1
             [] size = LARGE_BLOCK - 1 /\ top = 1 ->
                  /\ last.res = "ok"
                  /\ quantum.kind = "Memset"
                  /\ quantum.value = last.next
             [] OTHER ->
                  /\ last.res = "err"
                  /\ pc = "err"
                  /\ quantum.kind = "None"

\* C9 witness: size = 0x3FFFF with bit 18 clear was rejected
C9_Witness ==
    /\ last.op = "parse_quantum_header"
    /\ last.large
    /\ ~last.eof
    /\ last.v % LARGE_BLOCK = LARGE_BLOCK - 1
    /\ (last.v \div LARGE_BLOCK) % 2 = 0
    /\ last.res = "err"

-----------------------------------------------------------------------------
(* Properties of repeat_copy_64, checked under SpecCopy *)

\* the copy the LZ format defines: one byte at a time, front to back, each
\* byte read after the bytes before it were written
RECURSIVE byte_copy(_, _, _, _, _)
byte_copy(buf, dest, src, bytes, i) ==
    IF i >= bytes THEN buf
    ELSE byte_copy([buf EXCEPT ![dest + i] = buf[src + i]],
                   dest, src, bytes, i + 1)

\* C6 as stated: repeat_copy of n bytes whose distance d = dest - src is
\* at least 1 and less than n leaves what a byte-at-a-time forward copy
\* leaves; with d = 1 it fills the range with the byte before it.
C6_EqualsByteCopy ==
    LET d == copy_args.dest - copy_args.src
    IN  (/\ copy_pc = "ret"
         /\ copy_res = "ok"
         /\ d >= 1
         /\ copy_args.bytes > d)
        => /\ copy_buf = byte_copy(copy_old, copy_args.dest, copy_args.src,
                                   copy_args.bytes, 0)
           /\ d = 1 =>
                \A i \in 0 .. copy_args.bytes - 1 :
                    copy_buf[copy_args.dest + i] = copy_old[copy_args.src]

\* C6 amended: repeat_copy of n bytes whose distance d = dest - src is at
\* least 8 and less than n leaves what a byte-at-a-time forward copy leaves.
C6_EqualsByteCopyFrom8 ==
    LET d == copy_args.dest - copy_args.src
    IN  (/\ copy_pc = "ret"
         /\ copy_res = "ok"
         /\ d >= 8
         /\ copy_args.bytes > d)
        => copy_buf = byte_copy(copy_old, copy_args.dest, copy_args.src,
                                copy_args.bytes, 0)

\* C6 witness: an overlapping copy at distance 8 that took two strides
C6_Witness ==
    /\ copy_pc = "ret"
    /\ copy_res = "ok"
    /\ copy_args.dest - copy_args.src = 8
    /\ copy_args.bytes > 9
    /\ copy_buf # copy_old
    /\ copy_buf[copy_args.dest + 8] = copy_old[copy_args.src]

-----------------------------------------------------------------------------
(***************************************************************************)
(* The buffer operations of Core (src/src/core/pointer.rs) on its four     *)
(* spaces.  A pointer is [into, index]; a space is a function from         *)
(* 0 .. len - 1 to bytes.                                                  *)
(***************************************************************************)

SpaceNames == {"Input", "Output", "Scratch", "Temp"}

\* the spaces that ensure_scratch / ensure_tmp can lengthen
Growing(into) == into \in {"Scratch", "Temp"}

\* a space of the given bytes
Bytes(seq) == [i \in 0 .. Len(seq) - 1 |-> seq[i + 1]]

\* ensure_scratch / ensure_tmp: resize(size, 0) when the space is shorter
ensure(buf, size) ==
    IF SpaceLen(buf) < size
    THEN [i \in 0 .. size - 1 |-> IF i < SpaceLen(buf) THEN buf[i] ELSE 0]
    ELSE buf

\* pointers, lengths and bytes the operations are called with
Pointers == [into : SpaceNames, index : {0, 2}]
ReadLens == 1 .. 3
CopyLens == 0 .. 2
ByteValues == {1, 255}

\* Core::get_byte: slice::get(p.index) on the space as it is
get_byte(mem, p) ==
    IF p.index < SpaceLen(mem[p.into])
    THEN [res |-> "ok", v |-> mem[p.into][p.index], mem |-> mem]
    ELSE [res |-> "err", v |-> 0, mem |-> mem]

\* Core::get_slice: scratch and tmp are lengthened to p.index + n first
get_slice(mem, p, n) ==
    LET m1 == IF Growing(p.into)
              THEN [mem EXCEPT ![p.into] = ensure(@, p.index + n)]
              ELSE mem
    IN  IF p.index + n <= SpaceLen(m1[p.into])
        THEN [res |-> "ok", mem |-> m1,
              v |-> [i \in 0 .. n - 1 |-> m1[p.into][p.index + i]]]
        ELSE [res |-> "err", mem |-> m1, v |-> <<>>]

\* usize::from_le_bytes / usize::from_be_bytes of the first n bytes
RECURSIVE from_le_bytes(_, _, _)
from_le_bytes(b, i, n) ==
    IF i >= n THEN 0 ELSE b[i] + 256 * from_le_bytes(b, i + 1, n)

RECURSIVE from_be_bytes(_, _)
from_be_bytes(b, n) ==
    IF n = 0 THEN 0 ELSE 256 * from_be_bytes(b, n - 1) + b[n - 1]

\* Core::get_le_bytes / Core::get_be_bytes
get_le_bytes(mem, p, n) ==
    LET s == get_slice(mem, p, n)
    IN  IF s.res = "err" THEN [res |-> "err", v |-> 0, mem |-> s.mem]
        ELSE [res |-> "ok", v |-> from_le_bytes(s.v, 0, n), mem |-> s.mem]

get_be_bytes(mem, p, n) ==
    LET s == get_slice(mem, p, n)
    IN  IF s.res = "err" THEN [res |-> "err", v |-> 0, mem |-> s.mem]
        ELSE [res |-> "ok", v |-> from_be_bytes(s.v, n), mem |-> s.mem]

\* every space taken as writable
WritableAny(into) == TRUE

\* the spaces a write may land in
Writable(into) == into # "Input"

\* Core::set_bytes; v is a space of the bytes to write
set_bytes(mem, p, v) ==
    IF ~Writable(p.into) THEN [res |-> "err", mem |-> mem]
    ELSE LET n == SpaceLen(v)
             m1 == IF Growing(p.into)
                   THEN [mem EXCEPT ![p.into] = ensure(@, p.index + n)]
                   ELSE mem
         IN  IF p.index + n > SpaceLen(m1[p.into])
             THEN [res |-> "err", mem |-> m1]
             ELSE [res |-> "ok",
                   mem |-> [m1 EXCEPT ![p.into] =
                              [i \in DOMAIN @ |->
                                  IF p.index <= i /\ i < p.index + n
                                  THEN v[i - p.index] ELSE @[i]]]]

\* Core::set: one byte, slice::get_mut(p.index)
set(mem, p, v) == set_bytes(mem, p, Bytes(<<v>>))

\* Core::memset
memset(mem, p, v, n) == set_bytes(mem, p, [i \in 0 .. n - 1 |-> v])

\* slice::get(src.index..src.index + n) on the space as it is
SliceOk(mem, p, n) == p.index + n <= SpaceLen(mem[p.into])

\* Core::copy_bytes between any two pointers
mem_copy_bytes(mem, dest, src, n) ==
    IF dest.into = src.into
    THEN IF dest.index = src.index THEN [res |-> "ok", mem |-> mem]
         ELSE IF ~Writable(dest.into) THEN [res |-> "err", mem |-> mem]
         ELSE IF dest.into = "Output"
              THEN LET r == copy_bytes(mem.Output, dest.index, src.index, n)
                   IN  [res |-> r.res, mem |-> [mem EXCEPT !.Output = r.buf]]
              ELSE LET grown == ensure(mem[dest.into],
                                       Max(src.index, dest.index) + n)
                   IN  [res |-> "ok",
                        mem |-> [mem EXCEPT ![dest.into] =
                                   copy_within(grown, src.index,
                                               src.index + n, dest.index)]]
    ELSE IF ~Writable(dest.into) THEN [res |-> "err", mem |-> mem]
    ELSE LET m1 == IF Growing(dest.into)
                   THEN [mem EXCEPT ![dest.into] = ensure(@, dest.index + n)]
                   ELSE mem
         IN  IF ~SliceOk(m1, dest, n) \/ ~SliceOk(m1, src, n)
             THEN [res |-> "err", mem |-> m1]
             ELSE [res |-> "ok",
                   mem |-> [m1 EXCEPT ![dest.into] =
                              [i \in DOMAIN @ |->
                                  IF dest.index <= i /\ i < dest.index + n
                                  THEN m1[src.into][src.index + i - dest.index]
                                  ELSE @[i]]]]

\* Core::repeat_copy_64 between any two pointers
mem_repeat_copy_64(mem, dest, src, bytes) ==
    IF dest.into # src.into \/ bytes < abs_diff(src.index, dest.index)
    THEN mem_copy_bytes(mem, dest, src, bytes)
    ELSE IF ~Writable(dest.into) THEN [res |-> "err", mem |-> mem]
    ELSE LET r == repeat_copy_64(mem[dest.into], dest.index, src.index, bytes)
         IN  [res |-> r.res, mem |-> [mem EXCEPT ![dest.into] = r.buf]]

\* Core::copy_64_add: dest[i] = lhs[i] + rhs[i] (wrapping), byte by byte,
\* stopping at the first failing get_byte or set
RECURSIVE copy_64_add(_, _, _, _, _, _)
copy_64_add(mem, dest, lhs, rhs, n, i) ==
    IF i >= n THEN [res |-> "ok", mem |-> mem]
    ELSE LET a == get_byte(mem, [lhs EXCEPT !.index = @ + i])
             b == get_byte(mem, [rhs EXCEPT !.index = @ + i])
         IN  IF a.res = "err" \/ b.res = "err"
             THEN [res |-> "err", mem |-> mem]
             ELSE LET w == set(mem, [dest EXCEPT !.index = @ + i],
                               (a.v + b.v) % 256)
                  IN  IF w.res = "err" THEN w
                      ELSE copy_64_add(w.mem, dest, lhs, rhs, n, i + 1)

\* the spaces when the Core is built: input and output are the caller's
\* slices, scratch and tmp hold what earlier steps left there
SpaceInits ==
    [Input : {Bytes(<<7, 9>>)},
     Output : {Bytes(<<0, 0, 0>>), Bytes(<<3, 4, 5>>)},
     Scratch : {Bytes(<<>>), Bytes(<<11, 12>>)},
     Temp : {Bytes(<<>>), Bytes(<<21>>)}]

InitSpace ==
    /\ IdleExtractor
    /\ IdleCopy
    /\ IdleLz
    /\ IdleQuantum
    /\ IdleRange
    /\ IdleNibble
    /\ IdleHuff
    /\ IdleO1
    /\ IdleReverse
    /\ IdleRecent
    /\ IdleParser
    /\ IdleHistory
    /\ IdleEmit
    /\ IdleMulti
    /\ IdleRle
    /\ IdleWhole
    /\ IdleBitknit
    /\ sp_pc = "run"
    /\ sp_mem \in SpaceInits
    /\ sp_ops = 0
    /\ sp_obs = NoLast

\* an operation on n bytes at p has returned r; past tells whether p.index + n
\* exceeded the length the space had when the operation was called
Returned(op, p, n, r) ==
    /\ sp_mem' = r.mem
    /\ sp_ops' = sp_ops + 1
    /\ sp_obs' = [op |-> op, into |-> p.into, res |-> r.res,
                  past |-> p.index + n > SpaceLen(sp_mem[p.into])]
    /\ UNCHANGED sp_pc

SpaceReady == sp_pc = "run" /\ sp_ops < MaxOps

GetByte ==
    /\ UNCHANGED spaceRest
    /\ SpaceReady
    /\ \E p \in Pointers : Returned("get_byte", p, 1, get_byte(sp_mem, p))

GetLeBytes ==
    /\ UNCHANGED spaceRest
    /\ SpaceReady
    /\ \E p \in Pointers, n \in ReadLens :
         Returned("get_le_bytes", p, n, get_le_bytes(sp_mem, p, n))

GetBeBytes ==
    /\ UNCHANGED spaceRest
    /\ SpaceReady
    /\ \E p \in Pointers, n \in ReadLens :
         Returned("get_be_bytes", p, n, get_be_bytes(sp_mem, p, n))

Set ==
    /\ UNCHANGED spaceRest
    /\ SpaceReady
    /\ \E p \in Pointers, v \in ByteValues :
         Returned("set", p, 1, set(sp_mem, p, v))

SetBytes ==
    /\ UNCHANGED spaceRest
    /\ SpaceReady
    /\ \E p \in Pointers, n \in CopyLens, v \in ByteValues :
         Returned("set_bytes", p, n,
                  set_bytes(sp_mem, p, [i \in 0 .. n - 1 |-> (v + i) % 256]))

Memset ==
    /\ UNCHANGED spaceRest
    /\ SpaceReady
    /\ \E p \in Pointers, n \in CopyLens, v \in ByteValues :
         Returned("memset", p, n, memset(sp_mem, p, v, n))

CopyBytes ==
    /\ UNCHANGED spaceRest
    /\ SpaceReady
    /\ \E dest \in Pointers, src \in Pointers, n \in CopyLens :
         Returned("copy_bytes", dest, n, mem_copy_bytes(sp_mem, dest, src, n))

RepeatCopy64 ==
    /\ UNCHANGED spaceRest
    /\ SpaceReady
    /\ \E dest \in Pointers, src \in Pointers, n \in CopyLens :
         Returned("repeat_copy_64", dest, n,
                  mem_repeat_copy_64(sp_mem, dest, src, n))

Copy64Add ==
    /\ UNCHANGED spaceRest
    /\ SpaceReady
    /\ \E dest \in Pointers, lhs \in Pointers, rhs \in Pointers,
          n \in CopyLens :
         Returned("copy_64_add", dest, n,
                  copy_64_add(sp_mem, dest, lhs, rhs, n, 0))

NextSpace ==
    \/ GetByte
    \/ GetLeBytes
    \/ GetBeBytes
    \/ Set
    \/ SetBytes
    \/ Memset
    \/ CopyBytes
    \/ RepeatCopy64
    \/ Copy64Add

SpecSpace == InitSpace /\ [][NextSpace]_vars

-----------------------------------------------------------------------------
(* Properties of the buffer operations, checked under SpecSpace *)

\* C11: get_byte, get_le_bytes and get_be_bytes of n bytes at p fail whenever
\* p.index + n exceeds the length of the space p points into, in each of the
\* four spaces.
C11_ReadPastEndFails ==
    (/\ sp_obs.op \in {"get_byte", "get_le_bytes", "get_be_bytes"}
     /\ sp_obs.past)
    => sp_obs.res = "err"

\* C12: set and set_bytes with a destination in the input space return an
\* error, and no buffer operation changes a byte of the input space.
C12_InputReadOnly ==
    [][/\ sp_pc = "run" => sp_mem'.Input = sp_mem.Input
       /\ (/\ sp_obs'.op \in {"set", "set_bytes"}
           /\ sp_obs'.into = "Input")
          => sp_obs'.res = "err"]_vars

\* a write into the input space has been refused after an earlier operation
C12_Witness ==
    /\ sp_ops = MaxOps
    /\ sp_obs.op = "set_bytes"
    /\ sp_obs.into = "Input"
    /\ sp_obs.res = "err"

-----------------------------------------------------------------------------
(***************************************************************************)
(* The range coders of LZNA (src/src/lzna.rs) and Bitknit                  *)
(* (src/src/algorithm/bitknit.rs): two interleaved rANS states that swap   *)
(* at every renormalization.  A state is a u64 (LZNA) or a u32 (Bitknit),  *)
(* held as four 16-bit limbs <<l0, l1, l2, l3>>, least significant first.  *)
(***************************************************************************)

\* u < 0x10000 and u < 0x80000000
below_2_16(x) == x[2] = 0 /\ x[3] = 0 /\ x[4] = 0
below_2_31(x) == x[2] < 32768 /\ x[3] = 0 /\ x[4] = 0

\* x >> n
RECURSIVE shr(_, _)
shr(x, n) ==
    IF n = 0 THEN x
    ELSE IF n >= 16 THEN shr(<<x[2], x[3], x[4], 0>>, n - 16)
    ELSE LET k == 2 ^ n
             up == 2 ^ (16 - n)
         IN  <<(x[1] \div k) + (x[2] % k) * up,
               (x[2] \div k) + (x[3] % k) * up,
               (x[3] \div k) + (x[4] % k) * up,
               x[4] \div k>>

\* (x << n) | low for n < 16 and low < 2^n, wrapping at 64 bits
shl_or(x, n, low) ==
    LET k == 2 ^ n
        down == 2 ^ (16 - n)
    IN  <<(x[1] % down) * k + low,
          (x[2] % down) * k + (x[1] \div down),
          (x[3] % down) * k + (x[2] \div down),
          (x[4] % down) * k + (x[3] \div down)>>

\* x * f + c for f <= 0x8000 and c < 0x8000
mul_add(x, f, c) ==
    LET t1 == x[1] * f + c
        t2 == x[2] * f + (t1 \div 65536)
        t3 == x[3] * f + (t2 \div 65536)
        t4 == x[4] * f + (t3 \div 65536)
    IN  <<t1 % 65536, t2 % 65536, t3 % 65536, t4 % 65536>>

\* the rANS step of Lzna::read_nibble and Base::lookup:
\*   (end - start) * (x >> 15) + (x & 0x7FFF) - start
rans_step(x, start, end) ==
    mul_add(shr(x, 15), end - start, (x[1] % 32768) - start)

\* cumulative-frequency tables an adaptive model may hold: 0 first, 0x8000
\* last, strictly increasing
CumTables == { {0, 32768}, {0, 16384, 32768}, {0, 1, 32767, 32768} }

\* the slot of the table that holds masked: the last entry <= masked and the
\* first entry > masked
SlotStart(tbl, masked) ==
    CHOOSE s \in tbl : s <= masked /\ \A t \in tbl : t <= masked => t <= s
SlotEnd(tbl, masked) ==
    CHOOSE e \in tbl : e > masked /\ \A t \in tbl : t > masked => e <= t

\* 16-bit and 32-bit words the input may hold where the coder refills
Words16 == {0, 1, 65535}
Words32 == {<<0, 0>>, <<1, 0>>, <<0, 1>>, <<65535, 65535>>}

\* Lzna::renormalize on bits_a = x, refilling with the word r
LznaRenorm(x, r) == IF below_2_31(x) THEN <<r[1], r[2], x[1], x[2]>> ELSE x

\* Bitknit::renormalize on bits = x, refilling with the word r
BitknitRenorm(x, r) == IF below_2_16(x) THEN <<r, x[1], 0, 0>> ELSE x

\* Lzna::init_bits: d is the first byte, v the value of the d >> 4 bytes
\* that follow it
init_bits(d, v) == shl_or(v, 4, d % 16)

\* what init_bits may read: the head byte and the bytes after it
InitHeads == { [d |-> 0,  v |-> <<0, 0, 0, 0>>],
               [d |-> 15, v |-> <<0, 0, 0, 0>>],
               [d |-> 64, v |-> <<0, 32768, 0, 0>>],
               [d |-> 144, v |-> <<0, 0, 0, 0>>] }

\* the first 32-bit word of a Bitknit quantum
BitknitHeads == { <<65535, 0>>, <<0, 1>>, <<15, 1>>, <<65535, 65535>> }

\* Lzna::new (bits_a = bits_b = 0), Bitknit::new (bits = bits2 = 0x10000)
InitRange ==
    /\ IdleExtractor
    /\ IdleCopy
    /\ IdleLz
    /\ IdleQuantum
    /\ IdleSpace
    /\ IdleNibble
    /\ IdleHuff
    /\ IdleO1
    /\ IdleReverse
    /\ IdleRecent
    /\ IdleParser
    /\ IdleHistory
    /\ IdleEmit
    /\ IdleMulti
    /\ IdleRle
    /\ IdleWhole
    /\ IdleBitknit
    /\ rc_pc = "init"
    /\ rc_coder \in {"Lzna", "Bitknit"}
    /\ rc_a = IF rc_coder = "Lzna" THEN <<0, 0, 0, 0>> ELSE <<0, 1, 0, 0>>
    /\ rc_b = rc_a
    /\ rc_steps = 0
    /\ rc_obs = NoLast

\* a step leaves the coder with states a and b
RangeStep(op, a, b) ==
    /\ rc_a' = a
    /\ rc_b' = b
    /\ rc_steps' = rc_steps + 1
    /\ rc_pc' = "run"
    /\ rc_obs' = [op |-> op]
    /\ UNCHANGED rc_coder

\* the decoder stops: an error return, a panic, or Bitknit's Ok(0)
RangeStop(res, op) ==
    /\ rc_pc' = res
    /\ rc_obs' = [op |-> op]
    /\ UNCHANGED <<rc_coder, rc_a, rc_b, rc_steps>>

\* Lzna::init: init_bits twice; assert!(n <= 8) panics for a head byte
\* of 0x90 and above
LznaInit ==
    /\ UNCHANGED rangeRest
    /\ rc_pc = "init"
    /\ rc_coder = "Lzna"
    /\ \E ha \in InitHeads, hb \in InitHeads :
         IF ha.d \div 16 > 8 \/ hb.d \div 16 > 8
         THEN RangeStop("panic", "init_bits")
         ELSE /\ rc_a' = init_bits(ha.d, ha.v)
              /\ rc_b' = init_bits(hb.d, hb.v)
              /\ rc_pc' = "run"
              /\ rc_obs' = [op |-> "init"]
              /\ UNCHANGED <<rc_coder, rc_steps>>

\* the head of Bitknit::decode: the two states are split out of the first
\* words; then, at dst == 0, the first byte is taken from bits
BitknitInit ==
    /\ UNCHANGED rangeRest
    /\ rc_pc = "init"
    /\ rc_coder = "Bitknit"
    /\ \E v \in BitknitHeads, r1 \in Words16, r2 \in Words16, r3 \in Words16,
          r4 \in Words16, first \in BOOLEAN :
         IF v[2] = 0 THEN RangeStop("ret0", "decode")
         ELSE LET v4 == <<v[1], v[2], 0, 0>>
                  n == v[1] % 16
                  a0 == shr(v4, 4)
                  a1 == IF below_2_16(a0) THEN <<r1, a0[1], 0, 0>> ELSE a0
                  b0 == shr(a1, n)
                  bits == IF below_2_16(b0) THEN <<r2, b0[1], 0, 0>> ELSE b0
                  a2 == <<r3, a1[1], 0, 0>>
                  bits2 == <<a2[1], (a2[2] % (2 ^ n)) + 2 ^ n, 0, 0>>
              IN  /\ IF first
                     THEN /\ rc_a' = bits2
                          /\ rc_b' = BitknitRenorm(shr(bits, 8), r4)
                     ELSE /\ rc_a' = bits
                          /\ rc_b' = bits2
                  /\ rc_pc' = "run"
                  /\ rc_obs' = [op |-> "init"]
                  /\ UNCHANGED <<rc_coder, rc_steps>>

RangeReady(coder) ==
    /\ rc_pc = "run"
    /\ rc_coder = coder
    /\ rc_steps < MaxDecodes

\* the refill ran past the end of the input: Lzna::read unwraps None,
\* Bitknit::read_2 returns an error
Truncated ==
    /\ UNCHANGED rangeRest
    /\ rc_pc = "run"
    /\ rc_steps < MaxDecodes
    /\ IF rc_coder = "Lzna"
       THEN below_2_31(rc_a) /\ RangeStop("panic", "read")
       ELSE below_2_16(rc_a) /\ RangeStop("err", "read_2")

\* Lzna::read_bool and Lzna::read_n_bits: bits_a >>= bits; renormalize
LznaReadNBits ==
    /\ UNCHANGED rangeRest
    /\ RangeReady("Lzna")
    /\ \E bits \in {1, 2, 13}, r \in Words32 :
         RangeStep("read_n_bits", rc_b, LznaRenorm(shr(rc_a, bits), r))

\* Lzna::read_nibble: the rANS step on the slot of the model that holds
\* x & 0x7FFF; renormalize
LznaReadNibble ==
    /\ UNCHANGED rangeRest
    /\ RangeReady("Lzna")
    /\ \E tbl \in CumTables, r \in Words32 :
         LET masked == rc_a[1] % 32768
             x == rans_step(rc_a, SlotStart(tbl, masked), SlotEnd(tbl, masked))
         IN  RangeStep("read_nibble", rc_b, LznaRenorm(x, r))

\* Base::lookup then Bitknit::renormalize
BitknitLookup ==
    /\ UNCHANGED rangeRest
    /\ RangeReady("Bitknit")
    /\ \E tbl \in CumTables, r \in Words16 :
         LET masked == rc_a[1] % 32768
             x == rans_step(rc_a, SlotStart(tbl, masked), SlotEnd(tbl, masked))
         IN  RangeStep("lookup", rc_b, BitknitRenorm(x, r))

\* the raw bits of Bitknit::decode: self.bits >>= nb; renormalize
BitknitRawBits ==
    /\ UNCHANGED rangeRest
    /\ RangeReady("Bitknit")
    /\ \E nb \in {1, 12, 15}, r \in Words16 :
         RangeStep("raw_bits", rc_b, BitknitRenorm(shr(rc_a, nb), r))

NextRange ==
    \/ LznaInit
    \/ BitknitInit
    \/ Truncated
    \/ LznaReadNBits
    \/ LznaReadNibble
    \/ BitknitLookup
    \/ BitknitRawBits

SpecRange == InitRange /\ [][NextRange]_vars

-----------------------------------------------------------------------------
(* Properties of the range coders, checked under SpecRange *)

\* C13: after every renormalization that follows a sequence of symbol
\* decodes and raw-bit reads, each coder state is at least 2^16: the state
\* just renormalized after one operation, both states after two.
C13_StateAtLeast2To16 ==
    /\ (rc_pc = "run" /\ rc_steps >= 1) => ~below_2_16(rc_b)
    /\ (rc_pc = "run" /\ rc_steps >= 2) => ~below_2_16(rc_a)

-----------------------------------------------------------------------------
(* The adaptive nibble model of LZNA (src/src/lzna.rs).  read_nibble finds
   the slot of x & 0x7FFF in the 17 cumulative probabilities and moves the
   first 16 of them, in 16-bit lanes, a 128th of the way to their targets;
   prob[16] is never stored to. *)

\* Default for LznaNibbleModel
NibbleDefault == [i \in 0..16 |-> 2048 * i]

\* a 16-bit lane read as a signed value (_mm_cmpgt_epi16, _mm_srai_epi16)
as_i16(v) == IF v >= 32768 THEN v - 65536 ELSE v

\* _mm_cmpgt_epi16(t, masked) on one lane
lane_gt(p, masked) == as_i16(p) > as_i16(masked)

\* the lane of c0 / c1 after the and with 0x7FD9 and the add of 8 * i
nibble_target_flat(i, gt) == IF gt THEN 32729 ELSE 0

nibble_target(i, gt) == ((IF gt THEN 32729 ELSE 0) + 8 * i) % 65536

\* the same with a shift of 6 bits
lane_update_6(c, t) ==
    LET sub == (c - t) % 65536
        sra == (as_i16(sub) \div 64) % 65536
    IN  (sra + t) % 65536

\* _mm_add_epi16(_mm_srai_epi16::<7>(_mm_sub_epi16(c, t)), t) on one lane
lane_update(c, t) ==
    LET sub == (c - t) % 65536
        sra == (as_i16(sub) \div 128) % 65536
    IN  (sra + t) % 65536

\* the model after read_nibble at x & 0x7FFF = masked
nibble_update(prob, masked) ==
    [i \in 0..16 |->
        IF i = 16 THEN prob[16]
        ELSE lane_update(nibble_target(i, lane_gt(prob[i], masked)), prob[i])]

\* (m | 0x10000).trailing_zeros(): the first lane above masked, else 16
bitindex(prob, masked) ==
    IF \E i \in 0..15 : lane_gt(prob[i], masked)
    THEN CHOOSE i \in 0..15 :
            /\ lane_gt(prob[i], masked)
            /\ \A j \in 0..(i - 1) : ~lane_gt(prob[j], masked)
    ELSE 16

\* the model after n calls that all saw the same x & 0x7FFF, the run cut
\* in halves (a model the call leaves as it is stays so for the calls that
\* remain)
RECURSIVE nibble_repeat(_, _, _)
nibble_repeat(prob, masked, n) ==
    IF n = 0 THEN prob
    ELSE IF n = 1 THEN nibble_update(prob, masked)
    ELSE LET half == nibble_repeat(prob, masked, n \div 2)
         IN  IF nibble_update(half, masked) = half THEN half
             ELSE nibble_repeat(half, masked, n - (n \div 2))

\* the values of x & 0x7FFF drawn
MaskedValues == {0, 8, 2048, 16384, 32600, 32767}

\* models a session has reached before the calls followed here: the fresh
\* one, and the ones long runs of the lowest and of the highest nibble
\* leave
NibbleInits ==
    {NibbleDefault,
     nibble_repeat(NibbleDefault, 32767, LongRun),
     nibble_repeat(NibbleDefault, 0, LongRun)}

InitNibble ==
    /\ IdleExtractor
    /\ IdleCopy
    /\ IdleLz
    /\ IdleQuantum
    /\ IdleSpace
    /\ IdleRange
    /\ IdleHuff
    /\ IdleO1
    /\ IdleReverse
    /\ IdleRecent
    /\ IdleParser
    /\ IdleHistory
    /\ IdleEmit
    /\ IdleMulti
    /\ IdleRle
    /\ IdleWhole
    /\ IdleBitknit
    /\ nm_pc = "run"
    /\ nm_prob \in NibbleInits
    /\ nm_steps = 0
    /\ nm_sym = -1

\* Lzna::read_nibble, the model's part
ReadNibble ==
    /\ UNCHANGED nibbleRest
    /\ nm_pc = "run"
    /\ nm_steps < MaxNibbles
    /\ \E masked \in MaskedValues :
         /\ nm_sym' = bitindex(nm_prob, masked) - 1
         /\ nm_prob' = nibble_update(nm_prob, masked)
    /\ nm_steps' = nm_steps + 1
    /\ UNCHANGED nm_pc

NextNibble == ReadNibble

SpecNibble == InitNibble /\ [][NextNibble]_vars

\* C14: after any sequence of read_nibble decodes the 17 cumulative
\* probabilities are a valid 15-bit distribution: prob[0] = 0,
\* prob[16] = 0x8000 and prob[k] < prob[k+1] for every k in 0..15.
C14_ValidDistribution ==
    nm_pc = "run" =>
        /\ nm_prob[0] = 0
        /\ nm_prob[16] = 32768
        /\ \A k \in 0..15 : nm_prob[k] < nm_prob[k + 1]

\* several calls were made on a model whose lowest frequencies are down
\* to 8
C14_Witness ==
    /\ nm_pc = "run"
    /\ nm_steps >= 2
    /\ nm_sym = 15
    /\ \E k \in 0..14 : nm_prob[k + 1] - nm_prob[k] <= 8

-----------------------------------------------------------------------------
(* A Huffman chunk (chunk types 2 and 4) under Core::decode_bytes
   (src/src/core.rs): the code-length table is read by a BitReader that
   starts with three bytes in its 32-bit window; a table of one symbol
   takes the memset path of decode_bytes_type12.  What the decode of a
   table of two symbols or more returns is drawn. *)

\* bytes a chunk is made of
HuffBytes == {0, 64, 65, 128, 192, 255}

\* chunks of up to MaxHuffSrc bytes
HuffChunks == UNION { [1..n -> HuffBytes] : n \in 0..MaxHuffSrc }

\* BitReader::Refill from bitpos 24: the byte at p, 0 past p_end
refill_byte(src, i) == IF i <= Len(src) THEN src[i] ELSE 0

\* the 24 bits the first refill leaves at the top of bits
refill_bits(src) ==
    refill_byte(src, 1) * 65536 + refill_byte(src, 2) * 256
        + refill_byte(src, 3)

\* bits first .. first + n - 1 of the 24, most significant first
bits_at(w, first, n) == (w \div (2 ^ (24 - first - n))) % (2 ^ n)

\* the code-length form the first bits select: read_bit_no_refill twice in
\* decode_bytes_type12, once more in huff_read_code_lengths_old
TableForm(w) ==
    IF bits_at(w, 0, 1) = 0
    THEN IF bits_at(w, 1, 1) = 1 THEN "dense" ELSE "sparse"
    ELSE IF bits_at(w, 1, 1) = 0 THEN "new" ELSE "bad"

\* Pointer - Pointer: checked_sub of the indices
pointer_sub(a, b) == IF a >= b THEN [ok |-> TRUE, v |-> a - b]
                     ELSE [ok |-> FALSE, v |-> 0]

\* decode_bytes_type12 with num_syms == 1: src is bits.p less the whole
\* bytes not yet consumed; the return is src - src_end
single_src_used(src_size, bitpos) ==
    pointer_sub(3 - ((24 - bitpos) \div 8), src_size)

InitHuff ==
    /\ IdleExtractor
    /\ IdleCopy
    /\ IdleLz
    /\ IdleQuantum
    /\ IdleSpace
    /\ IdleRange
    /\ IdleNibble
    /\ IdleO1
    /\ IdleReverse
    /\ IdleRecent
    /\ IdleParser
    /\ IdleHistory
    /\ IdleEmit
    /\ IdleMulti
    /\ IdleRle
    /\ IdleWhole
    /\ IdleBitknit
    /\ hf_pc = "call"
    /\ hf_src \in HuffChunks
    /\ hf_halves \in {1, 2}
    /\ hf_out \in { [i \in 1..n |-> 0] : n \in 1..MaxHuffOut }
    /\ hf_obs = NoLast

HuffReturn(num_syms, sym, out, res) ==
    /\ hf_pc' = "done"
    /\ hf_out' = out
    /\ hf_obs' = [op |-> "decode_bytes", num_syms |-> num_syms, sym |-> sym,
                  res |-> res]
    /\ UNCHANGED <<hf_src, hf_halves>>

\* the sparse table: num_symbols in 8 bits; one symbol is memset over the
\* output and the bytes used are compared with src_size in decode_bytes
HuffSparse ==
    /\ UNCHANGED huffRest
    /\ hf_pc = "call"
    /\ LET w == refill_bits(hf_src)
           num_symbols == bits_at(w, 2, 8)
           sym == bits_at(w, 10, 8)
           used == single_src_used(Len(hf_src), 18)
       IN  /\ TableForm(w) = "sparse"
           /\ IF num_symbols = 0
              THEN HuffReturn(0, 0, hf_out, "err")
              ELSE IF num_symbols = 1
              THEN HuffReturn(1, sym, [i \in 1..Len(hf_out) |-> sym],
                              IF used.ok /\ used.v = Len(hf_src)
                              THEN "ok" ELSE "err")
              ELSE \E res \in {"ok", "err"}, out \in [1..Len(hf_out) -> {0, sym}] :
                     HuffReturn(num_symbols, sym, out, res)

\* the dense and the new table hold two symbols or more
HuffDense ==
    /\ UNCHANGED huffRest
    /\ hf_pc = "call"
    /\ TableForm(refill_bits(hf_src)) \in {"dense", "new"}
    /\ \E res \in {"ok", "err"}, out \in [1..Len(hf_out) -> {0, 1}] :
         HuffReturn(2, 0, out, res)

\* both leading bits set: "Bad data"
HuffBad ==
    /\ UNCHANGED huffRest
    /\ hf_pc = "call"
    /\ TableForm(refill_bits(hf_src)) = "bad"
    /\ HuffReturn(0, 0, hf_out, "err")

NextHuff ==
    \/ HuffSparse
    \/ HuffDense
    \/ HuffBad

SpecHuff == InitHuff /\ [][NextHuff]_vars

\* C15: a Huffman chunk, of one or two halves, whose code-length table
\* declares exactly one symbol decodes successfully and every output byte
\* equals that symbol.
C15_SingleSymbolDecodes ==
    (hf_pc = "done" /\ hf_obs.num_syms = 1) =>
        /\ hf_obs.res = "ok"
        /\ \A i \in 1..Len(hf_out) : hf_out[i] = hf_obs.sym

-----------------------------------------------------------------------------
(* Leviathan literals in O1 mode (src/src/algorithm/leviathan.rs):
   LeviathanModeO1 keeps, for each of the 16 literal streams, a pointer and
   the byte fetched ahead of it; the stream of a literal is chosen by the
   high nibble of the byte before it.  process_lz is followed command by
   command and literal by literal. *)

Slots == 0..15

\* bytes the streams and the window are made of, with high nibbles 0, 1, 2
\* and 15
LitBytes == <<0, 31, 32, 243>>

\* lzt.lit_stream[i]: the 16 streams lie one after the other in scratch
StreamStart(i) == StreamLen * i

\* scratch images: the 16 streams, then no byte more
O1Scratch ==
    { [k \in 0 .. 16 * StreamLen - 1 |-> LitBytes[(k % 4) + 1]],
      [k \in 0 .. 16 * StreamLen - 1 |-> LitBytes[((k \div StreamLen) % 4) + 1]],
      [k \in 0 .. 16 * StreamLen - 1 |-> LitBytes[((k * k + k \div 3) % 4) + 1]] }

\* the window: 8 bytes already there, then room for O1Room bytes
O1Output ==
    { [i \in 0 .. 7 + O1Room |-> IF i < 8 THEN LitBytes[((i + j) % 4) + 1] ELSE 0] :
        j \in 0..3 }

InitO1 ==
    /\ IdleExtractor
    /\ IdleCopy
    /\ IdleLz
    /\ IdleQuantum
    /\ IdleSpace
    /\ IdleRange
    /\ IdleNibble
    /\ IdleHuff
    /\ IdleReverse
    /\ IdleRecent
    /\ IdleParser
    /\ IdleHistory
    /\ IdleEmit
    /\ IdleMulti
    /\ IdleRle
    /\ IdleWhole
    /\ IdleBitknit
    /\ o1_pc = "new"
    /\ \E out \in O1Output, scratch \in O1Scratch :
         o1_mem = [Input |-> Bytes(<<>>), Output |-> out,
                   Scratch |-> scratch, Temp |-> Bytes(<<>>)]
    /\ o1_dst = 8
    /\ o1_mode = [lit_streams |-> [i \in Slots |-> 0],
                  next_lit |-> [i \in Slots |-> 0], context |-> 0]
    /\ o1_left = 0
    /\ o1_cmds = 0
    /\ o1_taken = [i \in Slots |-> 0]
    /\ o1_obs = NoLast

OutputAt(i) == [into |-> "Output", index |-> i]
ScratchAt(i) == [into |-> "Scratch", index |-> i]

\* an error return out of process_lz
O1Fail ==
    /\ o1_pc' = "err"
    /\ UNCHANGED <<o1_mem, o1_dst, o1_mode, o1_left, o1_taken, o1_obs>>

\* LeviathanModeO1::new: the first byte of every stream is fetched
O1New ==
    /\ UNCHANGED o1Rest
    /\ o1_pc = "new"
    /\ UNCHANGED o1_cmds
    /\ IF \E i \in Slots :
            get_byte(o1_mem, ScratchAt(StreamStart(i))).res = "err"
       THEN O1Fail
       ELSE /\ o1_mode' =
                 [lit_streams |-> [i \in Slots |-> StreamStart(i) + 1],
                  next_lit |-> [i \in Slots |->
                                  get_byte(o1_mem, ScratchAt(StreamStart(i))).v],
                  context |-> 0]
            /\ o1_pc' = "cmd"
            /\ UNCHANGED <<o1_mem, o1_dst, o1_left, o1_taken, o1_obs>>

\* the context kept from the literal before
o1_context_kept(mem, dst, context) == [res |-> "ok", v |-> context, mem |-> mem]

\* self.context = core.get_byte((*dst - 1)?)
o1_context_at(mem, dst, context) == get_byte(mem, OutputAt(dst - 1))

\* a run of n literals begins: the context is read from the window
O1Run(n, then) ==
    LET c == o1_context_at(o1_mem, o1_dst, o1_mode.context)
    IN  IF c.res = "err" THEN O1Fail
        ELSE /\ o1_mode' = [o1_mode EXCEPT !.context = c.v]
             /\ o1_left' = n
             /\ o1_pc' = IF n = 0 THEN then
                         ELSE IF then = "done" THEN "final" ELSE "lit"
             /\ UNCHANGED <<o1_mem, o1_dst, o1_taken, o1_obs>>

\* process_lz reads a command; LeviathanModeO1::copy_literals with
\* lit_cmd = cmd & 0x18 and, for 0x18, the length from len_stream
O1Cmd ==
    /\ UNCHANGED o1Rest
    /\ o1_pc = "cmd"
    /\ o1_cmds < MaxO1Cmds
    /\ o1_cmds' = o1_cmds + 1
    /\ \E lit_cmd \in {0, 8, 16, 24}, litlen \in 0..3 :
         IF lit_cmd = 24
         THEN IF litlen = 0 THEN O1Fail
              ELSE O1Run(litlen, "match")
         ELSE /\ litlen = 0
              /\ IF lit_cmd = 0
                 THEN /\ o1_pc' = "match"
                      /\ UNCHANGED <<o1_mem, o1_dst, o1_mode, o1_left,
                                     o1_taken, o1_obs>>
                 ELSE O1Run(lit_cmd \div 8, "match")

\* LeviathanModeO1::copy_literal
O1CopyLiteral ==
    /\ UNCHANGED o1Rest
    /\ o1_pc \in {"lit", "final"}
    /\ o1_left > 0
    /\ UNCHANGED o1_cmds
    /\ LET slot == o1_mode.context \div 16
           byte == o1_mode.next_lit[slot]
           w == set(o1_mem, OutputAt(o1_dst), byte)
           ahead == get_byte(w.mem, ScratchAt(o1_mode.lit_streams[slot]))
           \* the stream the claim names: the high nibble of the byte in
           \* the window before dst
           named == o1_mem.Output[o1_dst - 1] \div 16
       IN  IF w.res = "err" THEN O1Fail
           ELSE /\ o1_mem' = w.mem
                /\ o1_dst' = o1_dst + 1
                /\ o1_taken' = [o1_taken EXCEPT ![named] = @ + 1]
                /\ o1_obs' = [op |-> "literal", byte |-> byte,
                              stream |-> named, nth |-> o1_taken[named]]
                /\ IF ahead.res = "err"
                   THEN /\ o1_pc' = "err"
                        /\ o1_mode' = [o1_mode EXCEPT !.context = byte]
                        /\ UNCHANGED o1_left
                   ELSE /\ o1_mode' =
                             [o1_mode EXCEPT !.context = byte,
                                             !.next_lit[slot] = ahead.v,
                                             !.lit_streams[slot] = @ + 1]
                        /\ o1_left' = o1_left - 1
                        /\ o1_pc' = IF o1_left > 1 THEN o1_pc
                                    ELSE IF o1_pc = "lit" THEN "match"
                                    ELSE "done"

\* the match of the command: repeat_copy_64 from dst + offset
O1Match ==
    /\ UNCHANGED o1Rest
    /\ o1_pc = "match"
    /\ UNCHANGED <<o1_mode, o1_left, o1_cmds, o1_taken, o1_obs>>
    /\ \E offset \in {-8, -3, -1}, matchlen \in {2, 3} :
         LET r == mem_repeat_copy_64(o1_mem, OutputAt(o1_dst),
                                     OutputAt(o1_dst + offset), matchlen)
         IN  IF r.res = "err"
             THEN o1_pc' = "err" /\ UNCHANGED <<o1_mem, o1_dst>>
             ELSE /\ o1_mem' = r.mem
                  /\ o1_dst' = o1_dst + matchlen
                  /\ o1_pc' = "cmd"

\* the command stream is at its end: copy_final_literals up to dst_end,
\* or dst == dst_end
O1Final ==
    /\ UNCHANGED o1Rest
    /\ o1_pc = "cmd"
    /\ UNCHANGED o1_cmds
    /\ LET dst_end == SpaceLen(o1_mem.Output)
       IN  IF o1_dst < dst_end THEN O1Run(dst_end - o1_dst, "done")
           ELSE /\ o1_pc' = IF o1_dst = dst_end THEN "done" ELSE "err"
                /\ UNCHANGED <<o1_mem, o1_dst, o1_mode, o1_left, o1_taken,
                               o1_obs>>

NextO1 ==
    \/ O1New
    \/ O1Cmd
    \/ O1CopyLiteral
    \/ O1Match
    \/ O1Final

SpecO1 == InitO1 /\ [][NextO1]_vars

-----------------------------------------------------------------------------
(* The reverse look-up table of make_lut (src/src/core/huffman.rs): the
   entry at an 11-bit index goes to the bit-reversed index.  reverse_naive
   computes the index; reverse_simd and reverse_sse interleave bytes of
   eight rows of the table, 32 times over.  A 128-bit vector is a function
   on the byte lanes 0..15, lane 0 at the lowest address. *)

Lanes == 0..15

\* the input tables: entry i is a * (i mod 256) + b * (i div 256), as a u8;
\* the tables <<1, 0>> and <<0, 1>> together tell any two indices apart
Tables == (0..MaxMul) \X (0..MaxMul)

\* input[i] of the table, 2048 + 16 bytes long
TableAt(tab, i) == (tab[1] * (i % 256) + tab[2] * (i \div 256)) % 256

\* u16::reverse_bits, bit by bit
RECURSIVE reverse_bits(_, _)
reverse_bits(x, width) ==
    IF width = 0 THEN 0
    ELSE (x % 2) * (2 ^ (width - 1)) + reverse_bits(x \div 2, width - 1)

\* reverse_naive: input[(i as u16).reverse_bits() >> 5]
reverse_naive(tab) ==
    [i \in 0..2047 |-> TableAt(tab, reverse_bits(i, 16) \div 32)]

OFFSETS_in_order == [n \in 0..31 |-> 8 * n]

OFFSETS ==
    [n \in 0..31 |->
        <<0, 128, 64, 192, 32, 160, 96, 224, 16, 144, 80, 208, 48, 176, 112,
          240, 8, 136, 72, 200, 40, 168, 104, 232, 24, 152, 88, 216, 56, 184,
          120, 248>>[n + 1]]

\* _mm_loadl_epi64: eight bytes into the low lanes, zero above
loadl_epi64(tab, at) ==
    [l \in Lanes |-> IF l < 8 THEN TableAt(tab, at + l) ELSE 0]

\* u64x2::splat of the u64 at byte `at`, cast to u8x16 (little endian)
splat(tab, at) == [l \in Lanes |-> TableAt(tab, at + (l % 8))]

\* _mm_unpacklo_epi8 / u8x16::unpack_low: the low halves interleaved
unpack_low(a, b) ==
    [l \in Lanes |-> IF l % 2 = 0 THEN a[l \div 2] ELSE b[l \div 2]]

\* _mm_unpackhi_epi8 / u8x16::unpack_high: the high halves interleaved
unpack_high(a, b) ==
    [l \in Lanes |-> IF l % 2 = 0 THEN a[8 + (l \div 2)] ELSE b[8 + (l \div 2)]]

\* the four vectors reverse_sse stores in the round of offset j
sse_round(tab, j) ==
    LET t0 == unpack_low(loadl_epi64(tab, j), loadl_epi64(tab, j + 256))
        t1 == unpack_low(loadl_epi64(tab, j + 512), loadl_epi64(tab, j + 768))
        t2 == unpack_low(loadl_epi64(tab, j + 1024), loadl_epi64(tab, j + 1280))
        t3 == unpack_low(loadl_epi64(tab, j + 1536), loadl_epi64(tab, j + 1792))
        s0 == unpack_low(t0, t1)
        s1 == unpack_low(t2, t3)
        s2 == unpack_high(t0, t1)
        s3 == unpack_high(t2, t3)
    IN  <<unpack_low(s0, s1), unpack_low(s2, s3),
          unpack_high(s0, s1), unpack_high(s2, s3)>>

\* the four vectors reverse_simd stores in the round of offset j: the rows
\* i[j * 32] as u64, that is the bytes at offset + 256 * j
simd_round(tab, offset) ==
    LET t == [j \in 0..7 |-> splat(tab, offset + 256 * j)]
        u == [k \in 0..3 |-> unpack_low(t[2 * k], t[2 * k + 1])]
        c == [k \in 0..1 |-> <<unpack_low(u[2 * k], u[2 * k + 1]),
                               unpack_high(u[2 * k], u[2 * k + 1])>>]
    IN  <<unpack_low(c[0][1], c[1][1]), unpack_low(c[0][2], c[1][2]),
          unpack_high(c[0][1], c[1][1]), unpack_high(c[0][2], c[1][2])>>

\* where the stores of a round put byte i of the output: round n writes
\* eight bytes at 8 * n of each 256-byte block, the low half of vector k
\* in block k and its high half in block k + 4 (_mm_storel_epi64 at
\* output[256 * k], _mm_storeh_pd at output[1024 + 256 * k]; as u64,
\* output[32 * k] and output[128 + 32 * k])
Stored(rounds, i) ==
    LET block == i \div 256
        n == (i % 256) \div 8
        lane == (i % 8) + 8 * (block \div 4)
    IN  rounds[n][(block % 4) + 1][lane]

reverse_sse(tab) ==
    LET rounds == [n \in 0..31 |-> sse_round(tab, OFFSETS[n])]
    IN  [i \in 0..2047 |-> Stored(rounds, i)]

reverse_simd(tab) ==
    LET rounds == [n \in 0..31 |-> simd_round(tab, OFFSETS[n])]
    IN  [i \in 0..2047 |-> Stored(rounds, i)]

InitReverse ==
    /\ IdleExtractor
    /\ IdleCopy
    /\ IdleLz
    /\ IdleQuantum
    /\ IdleSpace
    /\ IdleRange
    /\ IdleNibble
    /\ IdleHuff
    /\ IdleO1
    /\ IdleRecent
    /\ IdleParser
    /\ IdleHistory
    /\ IdleEmit
    /\ IdleMulti
    /\ IdleRle
    /\ IdleWhole
    /\ IdleBitknit
    /\ rv_pc = "run"
    /\ rv_input \in Tables
    /\ rv_done = {}
    /\ rv_naive = <<>>
    /\ rv_simd = <<>>
    /\ rv_sse = <<>>

ReverseNaive ==
    /\ UNCHANGED reverseRest
    /\ rv_pc = "run"
    /\ "naive" \notin rv_done
    /\ rv_naive' = reverse_naive(rv_input)
    /\ rv_done' = rv_done \cup {"naive"}
    /\ UNCHANGED <<rv_pc, rv_input, rv_simd, rv_sse>>

ReverseSimd ==
    /\ UNCHANGED reverseRest
    /\ rv_pc = "run"
    /\ "simd" \notin rv_done
    /\ rv_simd' = reverse_simd(rv_input)
    /\ rv_done' = rv_done \cup {"simd"}
    /\ UNCHANGED <<rv_pc, rv_input, rv_naive, rv_sse>>

ReverseSse ==
    /\ UNCHANGED reverseRest
    /\ rv_pc = "run"
    /\ "sse" \notin rv_done
    /\ rv_sse' = reverse_sse(rv_input)
    /\ rv_done' = rv_done \cup {"sse"}
    /\ UNCHANGED <<rv_pc, rv_input, rv_naive, rv_simd>>

NextReverse ==
    \/ ReverseNaive
    \/ ReverseSimd
    \/ ReverseSse

SpecReverse == InitReverse /\ [][NextReverse]_vars

\* C17: reverse_naive, reverse_simd and reverse_sse produce the same entry
\* at every index in [1, 2048), for every input table.
C17_BuildersAgree ==
    /\ {"naive", "simd"} \subseteq rv_done =>
          \A i \in 1..2047 : rv_naive[i] = rv_simd[i]
    /\ {"naive", "sse"} \subseteq rv_done =>
          \A i \in 1..2047 : rv_naive[i] = rv_sse[i]

\* the three builders have run on a table whose entries differ
C17_Witness ==
    /\ rv_done = {"naive", "simd", "sse"}
    /\ rv_input[1] = 1
    /\ rv_input[2] = 1
    /\ rv_sse[1] = TableAt(rv_input, 1024)
    /\ rv_simd[3] = TableAt(rv_input, 1536)

-----------------------------------------------------------------------------
(* Block headers, decoder restarts and the bytes a decoder reports, checked
   under SpecExtractor *)

\* the step is Extractor::parse_header, or a decoder call on a compressed
\* quantum
IsParseHeader == last'.op = "parse_header"
IsDecode(dec) == last'.op = "compressed" /\ last'.dec = dec

\* the session's state of an adaptive decoder
StateOf(dec) == IF dec = "Lzna" THEN lzna_state ELSE bitknit_state
StateOfNext(dec) == IF dec = "Lzna" THEN lzna_state' ELSE bitknit_state'

\* the state a decoder has when it was just reset
FreshOf(dec) == IF dec = "Lzna" THEN LznaStateNew ELSE BitknitStateNew

\* C18: Extractor::read parses a block header exactly when the bytes
\* written so far in the call are a multiple of 0x40000; the quanta in
\* between share that header; a restart_decoder flag resets the decoder
\* state at most once per block, on the block's first compressed quantum
\* (the reset clears the flag, and nothing but parse_header sets it).
C18_HeaderPerBlock ==
    [][/\ IsParseHeader => bytes_written % LARGE_BLOCK = 0
       /\ (/\ pc = "loop"
           /\ last'.op \in {"uncompressed", "parse_quantum_header"})
          => bytes_written % LARGE_BLOCK # 0
       /\ ~IsParseHeader =>
             \/ header' = header
             \/ /\ header.restart_decoder
                /\ header' = [header EXCEPT !.restart_decoder = FALSE]
       /\ \A dec \in {"Lzna", "Bitknit"} :
             /\ (IsDecode(dec) /\ last'.restart) =>
                   /\ header.restart_decoder
                   /\ ~header'.restart_decoder
                   /\ last'.start = FreshOf(dec)
             /\ (IsDecode(dec) /\ header.restart_decoder /\ last'.consumed > 0)
                   => last'.restart /\ last'.start = FreshOf(dec)
      ]_vars

\* in one call a block of sixteen Lzna quanta was written under one header,
\* the first of them after a restart, and the next header is parsed at
\* 0x40000
C18_Witness ==
    /\ reads = 1
    /\ last.op = "parse_header"
    /\ last.before = LARGE_BLOCK
    /\ lzna_state # NoState

\* C19: an LZNA or Bitknit compressed quantum met when no block with
\* restart_decoder = 1 has reset that decoder in the session returns an
\* error and writes no output byte; the decoder never runs from a state
\* that no restart has made.  (The session's state is None until a restart
\* sets it, and only a restart sets it.)
C19_NoImplicitState ==
    [][\A dec \in {"Lzna", "Bitknit"} :
          /\ (IsDecode(dec) /\ last'.ran) =>
                \/ header.restart_decoder
                \/ StateOf(dec) # NoState
          /\ (StateOf(dec) = NoState /\ StateOfNext(dec) # NoState) =>
                /\ IsDecode(dec)
                /\ header.restart_decoder
          /\ (/\ IsDecode(dec)
              /\ last'.consumed > 0
              /\ ~header.restart_decoder
              /\ StateOf(dec) = NoState)
             => /\ pc' = "err"
                /\ ~last'.ran
                /\ bytes_written' = bytes_written
                /\ StateOfNext(dec) = NoState
      ]_vars

\* a Bitknit quantum of a block without restart met an unset state, after
\* an Lzna block had restarted its own decoder
C19_Witness ==
    /\ last.op = "compressed"
    /\ last.dec = "Bitknit"
    /\ ~last.ran
    /\ last.consumed > 0
    /\ pc = "err"
    /\ bitknit_state = NoState
    /\ lzna_state # NoState

\* C20: a compressed quantum is accepted only if its decoder reports
\* having consumed exactly compressed_size bytes, for all five decoders; a
\* decoder that returns another count yields an error, never a success.
C20_ExactBytesOrError ==
    [][last'.op = "compressed" =>
          /\ pc' \in {"loop", "done"} => (last'.ran /\ last'.res = "exact")
          /\ last'.res = "short" =>
                /\ pc' = "err"
                /\ bytes_written' = bytes_written
      ]_vars

\* the Bitknit decoder returned a count other than compressed_size
\* and the call ended in an error
C20_Witness ==
    /\ last.op = "compressed"
    /\ last.dec = "Bitknit"
    /\ last.ran
    /\ last.res = "short"
    /\ pc = "err"

\* ---------------------------------------------------------------------
\* The recent offsets of the Kraken and Leviathan copy loops
\* (KrakenLzTable::process_lz_runs, LeviathanLzTable::process_lz)
\* ---------------------------------------------------------------------

\* commands of one chunk
MaxRoCmds == 4

\* an entry of recent_offs with the place its value came from: "unused"
\* (a zero of the array's construction), "init" (the -8 of the start),
\* "stream" (read from offs_stream), "past" (read where offs_stream has
\* no entry left)
Entry(v, o) == [v |-> v, o |-> o]

\* the unpacked offset streams of a chunk
RoStreams == {<<>>, <<-11>>, <<-11, -12>>, <<-11, -12, -13>>, <<0, -8>>}

\* what Core::get_int returns at the end of offs_stream in scratch: zero
\* fill or an entry of the stream that follows
RoPast == {0, 3}

\* the first slot of the ring: recent_offs[3] in Kraken, recent_offs[8]
\* in Leviathan
Base(engine) == IF engine = "Kraken" THEN 3 ELSE 8

\* let mut recent_offs = [0; 7]; recent_offs[3] = -8; [4] = -8; [5] = -8
\* core::array::from_fn(|i| match i { 8..=14 => -8, _ => 0 })
recent_offs_new(engine) ==
    IF engine = "Kraken"
    THEN [i \in 0 .. 6 |->
            IF i \in 3 .. 5 THEN Entry(-8, "init") ELSE Entry(0, "unused")]
    ELSE [i \in 0 .. 15 |->
            IF i \in 8 .. 14 THEN Entry(-8, "init") ELSE Entry(0, "unused")]

\* exchanging the selected slot with the front instead of moving to front
permute_swap(recent_offs, offs_index, base) ==
    [recent_offs EXCEPT ![base] = recent_offs[offs_index + base],
                        ![offs_index + base] = recent_offs[base]]

\* offset = recent_offs[offs_index + base];
\* recent_offs.copy_within(offs_index..offs_index + base, offs_index + 1);
\* recent_offs[base] = offset
permute(recent_offs, offs_index, base) ==
    [copy_within(recent_offs, offs_index, offs_index + base, offs_index + 1)
        EXCEPT ![base] = recent_offs[offs_index + base]]

InitRecent ==
    /\ IdleExtractor
    /\ IdleCopy
    /\ IdleLz
    /\ IdleQuantum
    /\ IdleSpace
    /\ IdleRange
    /\ IdleNibble
    /\ IdleHuff
    /\ IdleO1
    /\ IdleReverse
    /\ IdleParser
    /\ IdleHistory
    /\ IdleEmit
    /\ IdleMulti
    /\ IdleRle
    /\ IdleWhole
    /\ IdleBitknit
    /\ ro_pc = "loop"
    /\ ro_engine \in {"Kraken", "Leviathan"}
    /\ ro_recent = recent_offs_new(ro_engine)
    /\ ro_stream \in RoStreams
    /\ ro_pos = 0
    /\ ro_cmds \in 0 .. MaxRoCmds
    /\ ro_obs = NoLast

\* the command ends the chunk with an error of one of its copies
RoStop(recent_offs, pos, site) ==
    /\ ro_pc' = "err"
    /\ ro_recent' = recent_offs
    /\ ro_pos' = pos
    /\ ro_obs' = [op |-> "err", site |-> site]
    /\ UNCHANGED <<ro_engine, ro_stream>>

\* the command has emitted its match
RoMatch(recent_offs, pos, offs_index, staged) ==
    /\ ro_pc' = "loop"
    /\ ro_recent' = recent_offs
    /\ ro_pos' = pos
    /\ ro_obs' = [op |-> "match", offs_index |-> offs_index,
                  offset |-> recent_offs[Base(ro_engine)], staged |-> staged]
    /\ UNCHANGED <<ro_engine, ro_stream>>

\* one iteration of the loop of KrakenLzTable::process_lz_runs, its two
\* copies succeeding (copies = "ok") or returning an error
RoKrakenCommand ==
    /\ UNCHANGED recentRest
    /\ ro_pc = "loop"
    /\ ro_engine = "Kraken"
    /\ ro_cmds > 0
    /\ ro_cmds' = ro_cmds - 1
    /\ \E offs_index \in 0 .. 3, past \in RoPast,
          copies \in {"ok", "literals", "match"} :
        LET staged == IF ro_pos < Len(ro_stream)
                      THEN Entry(ro_stream[ro_pos + 1], "stream")
                      ELSE Entry(past, "past")
            rec6 == [ro_recent EXCEPT ![6] = staged]
            rec == permute(rec6, offs_index, 3)
            pos == IF offs_index = 3 THEN ro_pos + 1 ELSE ro_pos
        IN  IF copies = "literals" THEN RoStop(rec6, ro_pos, copies)
            ELSE IF copies = "match" THEN RoStop(rec, pos, copies)
            ELSE RoMatch(rec, pos, offs_index, staged)

\* the end of KrakenLzTable::process_lz_runs:
\* self.assert_eq(offs_stream, offs_stream_end)
RoKrakenFinish ==
    /\ UNCHANGED recentRest
    /\ ro_pc = "loop"
    /\ ro_engine = "Kraken"
    /\ ro_cmds = 0
    /\ ro_pc' = IF ro_pos = Len(ro_stream) THEN "ok" ELSE "err"
    /\ ro_obs' = [op |-> "finish"]
    /\ UNCHANGED <<ro_engine, ro_recent, ro_stream, ro_pos, ro_cmds>>

\* one iteration of the loop of LeviathanLzTable::process_lz: offs_stream is
\* a peekable iterator, peek() and next() giving None at its end
RoLeviathanCommand ==
    /\ UNCHANGED recentRest
    /\ ro_pc = "loop"
    /\ ro_engine = "Leviathan"
    /\ ro_cmds > 0
    /\ ro_cmds' = ro_cmds - 1
    /\ \E offs_index \in 0 .. 7, copies \in {"ok", "literals", "match"} :
        LET staged == IF ro_pos < Len(ro_stream)
                      THEN Entry(ro_stream[ro_pos + 1], "stream")
                      ELSE Entry(0, "past")
            rec15 == [ro_recent EXCEPT ![15] = staged]
            rec == permute(rec15, offs_index, 8)
            pos == IF offs_index = 7 /\ ro_pos < Len(ro_stream)
                   THEN ro_pos + 1 ELSE ro_pos
        IN  IF copies = "literals" THEN RoStop(rec15, ro_pos, copies)
            ELSE IF copies = "match" THEN RoStop(rec, pos, copies)
            ELSE RoMatch(rec, pos, offs_index, staged)

\* the end of LeviathanLzTable::process_lz:
\* self.assert_eq(offs_stream.len(), 0)
RoLeviathanFinish ==
    /\ UNCHANGED recentRest
    /\ ro_pc = "loop"
    /\ ro_engine = "Leviathan"
    /\ ro_cmds = 0
    /\ ro_pc' = IF ro_pos = Len(ro_stream) THEN "ok" ELSE "err"
    /\ ro_obs' = [op |-> "finish"]
    /\ UNCHANGED <<ro_engine, ro_recent, ro_stream, ro_pos, ro_cmds>>

NextRecent ==
    \/ RoKrakenCommand
    \/ RoKrakenFinish
    \/ RoLeviathanCommand
    \/ RoLeviathanFinish

SpecRecent == InitRecent /\ [][NextRecent]_vars

\* a command of the named engine that emitted its match in this step
RoCommand(engine) ==
    /\ ro_engine = engine
    /\ ro_pc = "loop"
    /\ ro_cmds' = ro_cmds - 1
    /\ ro_obs'.op = "match"

\* the move-to-front of one command over the ring base..staging:
\* the selected entry is the one at slot k + base before the command (slot
\* staging holding the value read from offs_stream), it is at the front
\* after it, the entries before it have moved one slot later in order,
\* the entries behind it are unchanged, and it is not a zero of the
\* array's construction
MoveToFront(base, staging) ==
    LET k == ro_obs'.offs_index
        offset == ro_obs'.offset
        before == [ro_recent EXCEPT ![staging] = ro_obs'.staged]
    IN  /\ offset = before[k + base]
        /\ ro_recent'[base] = offset
        /\ \A j \in base .. k + base - 1 : ro_recent'[j + 1] = before[j]
        /\ \A j \in k + base + 1 .. staging - 1 : ro_recent'[j] = before[j]
        /\ offset.o # "unused"

C22_LeviathanRecentOffsets ==
    [][/\ (ro_engine = "Leviathan" /\ ro_obs = NoLast /\ ro_pc = "loop")
            => \A j \in 8 .. 14 : ro_recent[j].v = -8
       /\ RoCommand("Leviathan") =>
            /\ MoveToFront(8, 15)
            /\ ro_obs'.offs_index = 7 => ro_obs'.offset.o = "stream"
            /\ ro_pos' = ro_pos + (IF ro_obs'.offs_index = 7 THEN 1 ELSE 0)
      ]_vars

\* ---------------------------------------------------------------------
\* The parser state of Lzna::decode_quantum
\* ---------------------------------------------------------------------

\* bytes of one LZNA quantum, its last 8 holding the two coder states
PsWindow == 20
\* quanta decoded one after the other
MaxQuanta == 2

\* state = [0, 0, 0, 0, 1, 2, 3, 4, 5, 6, 4, 5][state], a table that keeps
\* the state instead
literal_state_kept(state) == state

\* state = [0, 0, 0, 0, 1, 2, 3, 4, 5, 6, 4, 5][state]; an index outside
\* the table panics
literal_state(state) ==
    IF state \in 0 .. 11 THEN <<0, 0, 0, 0, 1, 2, 3, 4, 5, 6, 4, 5>>[state + 1]
    ELSE -1

\* &mut lut.is_literal[(self.dst & 7) + 8 * state], lut.typ[...]
model_index(dst, state) == (dst % 8) + 8 * state

\* lengths read for the event with type nibble x
\*   x == 1: 3 + read_1_bit; x == 2: 5 + read_3_bits; x == 3: read_length + 13
\*   x >= 12: 2; x in 4..11, odd: 11 + read_length, even: 3 + read_3_bits
PsLengths(x) ==
    IF x = 1 THEN {3, 4}
    ELSE IF x = 2 THEN {5, 12}
    ELSE IF x = 3 THEN {13, 30}
    ELSE IF x >= 12 THEN {2}
    ELSE IF x % 2 = 1 THEN {11, 28}
    ELSE {3, 10}

InitParser ==
    /\ IdleExtractor
    /\ IdleCopy
    /\ IdleLz
    /\ IdleQuantum
    /\ IdleSpace
    /\ IdleRange
    /\ IdleNibble
    /\ IdleHuff
    /\ IdleO1
    /\ IdleReverse
    /\ IdleRecent
    /\ IdleHistory
    /\ IdleEmit
    /\ IdleMulti
    /\ IdleRle
    /\ IdleWhole
    /\ IdleBitknit
    /\ ps_pc = "start"
    /\ ps_state = 0
    /\ ps_dst = 0
    /\ ps_len = PsWindow
    /\ ps_quanta = 0
    /\ ps_obs = NoLast

\* the head of decode_quantum: let mut state = 5, and the first byte of
\* the stream written without an event when self.dst == 0
PsStart ==
    /\ UNCHANGED parserRest
    /\ ps_pc = "start"
    /\ ps_pc' = "loop"
    /\ ps_state' = 5
    /\ ps_dst' = IF ps_dst = 0 THEN 1 ELSE ps_dst
    /\ ps_obs' = [op |-> "start"]
    /\ UNCHANGED <<ps_len, ps_quanta>>

\* the event ends with the parser state next after length bytes were
\* written at self.dst: the models are indexed with the state, and
\* self.output[self.dst - dist] and the writes index the output slice,
\* each panicking out of range
PsEvent(op, next, length, reach) ==
    LET index == model_index(ps_dst, ps_state)
        site == IF index \notin 0 .. 95 \/ next \notin 0 .. 11 THEN "model"
                ELSE IF ~reach \/ ps_dst + length > ps_len THEN "output"
                ELSE "none"
    IN  IF site # "none"
        THEN /\ ps_pc' = "panic"
             /\ ps_obs' = [op |-> "panic", site |-> site]
             /\ UNCHANGED <<ps_state, ps_dst, ps_len, ps_quanta>>
        ELSE /\ ps_state' = next
             /\ ps_dst' = ps_dst + length
             /\ ps_obs' = [op |-> op, index |-> index, from |-> ps_state]
             /\ UNCHANGED <<ps_pc, ps_len, ps_quanta>>

\* read_1_bit(is_literal) == 0: output a literal
PsLiteral ==
    /\ UNCHANGED parserRest
    /\ ps_pc = "loop"
    /\ ps_dst < ps_len - 8
    /\ \E reach \in BOOLEAN :
          PsEvent("literal", literal_state(ps_state), 1, reach)

\* x == 0: copy 1 byte from the most recent distance
PsCopy1 ==
    /\ UNCHANGED parserRest
    /\ ps_pc = "loop"
    /\ ps_dst < ps_len - 8
    /\ \E reach \in BOOLEAN :
          PsEvent("copy1", IF ps_state >= 7 THEN 11 ELSE 9, 1, reach)

\* 0 < x < 4: a match with a new distance
PsNewMatch ==
    /\ UNCHANGED parserRest
    /\ ps_pc = "loop"
    /\ ps_dst < ps_len - 8
    /\ \E x \in 1 .. 3, reach \in BOOLEAN :
          \E length \in PsLengths(x) :
              PsEvent("match", IF ps_state >= 7 THEN 10 ELSE 7, length, reach)

\* x >= 4: a match with a distance of match_history
PsRecent ==
    /\ UNCHANGED parserRest
    /\ ps_pc = "loop"
    /\ ps_dst < ps_len - 8
    /\ \E x \in 4 .. 15, reach \in BOOLEAN :
          \E length \in PsLengths(x) :
              PsEvent("recent", IF ps_state >= 7 THEN 11 ELSE 8, length, reach)

\* the end of decode_quantum: self.assert_eq(self.dst, dst_end)
PsFinish ==
    /\ UNCHANGED parserRest
    /\ ps_pc = "loop"
    /\ ps_dst >= ps_len - 8
    /\ ps_pc' = IF ps_dst = ps_len - 8 THEN "ok" ELSE "err"
    /\ ps_obs' = [op |-> "finish"]
    /\ UNCHANGED <<ps_state, ps_dst, ps_len, ps_quanta>>

\* Extractor::extract builds the next Lzna over the slice that ends with
\* the next quantum's window, the LznaState of the session being kept
PsNextQuantum ==
    /\ UNCHANGED parserRest
    /\ ps_pc = "ok"
    /\ ps_quanta < MaxQuanta - 1
    /\ ps_pc' = "start"
    /\ ps_quanta' = ps_quanta + 1
    /\ ps_dst' = ps_len
    /\ ps_len' = ps_len + PsWindow
    /\ ps_obs' = NoLast
    /\ UNCHANGED ps_state

NextParser ==
    \/ PsStart
    \/ PsLiteral
    \/ PsCopy1
    \/ PsNewMatch
    \/ PsRecent
    \/ PsFinish
    \/ PsNextQuantum

SpecParser == InitParser /\ [][NextParser]_vars

\* C23: the LZNA parser state is 5 at the start of every quantum and stays
\* within 0..11 after any sequence of events, so that the models indexed
\* by it are indexed in range; it is below 7 exactly when the last event
\* was a literal and at least 7 exactly when the last event was a
\* copy-1-byte, a new match or a recent match.
C23_ParserStateInRange ==
    /\ ps_obs.op = "start" => ps_state = 5
    /\ ps_obs.op = "panic" => ps_obs.site = "output"
    /\ ps_pc = "loop" =>
          /\ ps_state \in 0 .. 11
          /\ model_index(ps_dst, ps_state) \in 0 .. 95
    /\ ps_obs.op = "literal" => ps_state < 7 /\ ps_obs.index \in 0 .. 95
    /\ ps_obs.op \in {"copy1", "match", "recent"}
          => ps_state >= 7 /\ ps_obs.index \in 0 .. 95

\* a literal after a match after a literal, in the second quantum
C23_Witness ==
    /\ ps_quanta = 1
    /\ ps_obs.op = "literal"
    /\ ps_obs.from = 10
    /\ ps_state = 4

\* ---------------------------------------------------------------------
\* LznaState::preprocess_match_history
\* ---------------------------------------------------------------------

\* distances a quantum can leave in match_history[4..8]: dist as u32 of a
\* new match, 1 being the value of LznaState::new
HistoryValues == {1, 4, 49151, 49152, 49153, 65536}

\* match_history: [1; 8] with the four live slots as the matches of
\* earlier quanta left them; slots 0..3 are only ever copied from slot 1
HistoryOf(live) == [i \in 0 .. 7 |-> IF i < 4 THEN 1 ELSE live[i - 3]]

\* the while loop of preprocess_match_history: the first i with
\* match_history[4 + i] < 0xC000, or 4 when i reaches 4
RECURSIVE first_below(_, _)
first_below(match_history, i) ==
    IF match_history[4 + i] < 49152 THEN i
    ELSE IF i + 1 >= 4 THEN 4
    ELSE first_below(match_history, i + 1)

\* exchanging slot 4 with the slot found instead of rotating
preprocess_swap(match_history) ==
    IF match_history[4] < 49152 THEN match_history
    ELSE LET i == first_below(match_history, 0)
         IN  IF i = 4 THEN [match_history EXCEPT ![4] = 4]
             ELSE [match_history EXCEPT ![4] = match_history[i + 4],
                                        ![i + 4] = match_history[4]]

\* the assignments of the code, one after the other
assign(mh, to, from) == [mh EXCEPT ![to] = mh[from]]

\* LznaState::preprocess_match_history
preprocess_match_history(match_history) ==
    IF match_history[4] < 49152 THEN match_history
    ELSE LET i == first_below(match_history, 0)
         IN  IF i = 4
             THEN [assign(assign(assign(match_history, 7, 6), 6, 5), 5, 4)
                      EXCEPT ![4] = 4]
             ELSE LET t == match_history[i + 4]
                  IN  [assign(assign(assign(match_history, i + 4, i + 3),
                                     i + 3, i + 2), i + 2, i + 1)
                          EXCEPT ![4] = t]

InitHistory ==
    /\ IdleExtractor
    /\ IdleCopy
    /\ IdleLz
    /\ IdleQuantum
    /\ IdleSpace
    /\ IdleRange
    /\ IdleNibble
    /\ IdleHuff
    /\ IdleO1
    /\ IdleReverse
    /\ IdleRecent
    /\ IdleParser
    /\ IdleEmit
    /\ IdleMulti
    /\ IdleRle
    /\ IdleWhole
    /\ IdleBitknit
    /\ mh_pc = "quantum"
    /\ \E live \in [1 .. 4 -> HistoryValues] :
          mh_history = HistoryOf(live)
    /\ mh_before = mh_history

\* the first statement of Lzna::decode_quantum
Preprocess ==
    /\ UNCHANGED historyRest
    /\ mh_pc = "quantum"
    /\ mh_pc' = "done"
    /\ mh_history' = preprocess_match_history(mh_history)
    /\ UNCHANGED mh_before

NextHistory == Preprocess

SpecHistory == InitHistory /\ [][NextHistory]_vars

\* C24: after preprocess_match_history slot 4 is below 0xC000; if it was
\* so before, nothing changes; otherwise the first of slots 5, 6, 7 below
\* 0xC000 is moved into slot 4, the live slots before it each move one
\* slot older and the later slots are unchanged; if none of slots 4..7 is
\* below 0xC000, slots 4..6 move to 5..7 and slot 4 is set to 4.
C24_PreprocessedHistory ==
    mh_pc = "done" =>
        LET old == mh_before
            new == mh_history
            Low(j) == old[j] < 49152
        IN  /\ new[4] < 49152
            /\ Low(4) => new = old
            /\ \A f \in 5 .. 7 :
                 ((\A j \in 4 .. f - 1 : ~Low(j)) /\ Low(f)) =>
                    /\ new[4] = old[f]
                    /\ \A j \in 4 .. f - 1 : new[j + 1] = old[j]
                    /\ \A j \in f + 1 .. 7 : new[j] = old[j]
            /\ (\A j \in 4 .. 7 : ~Low(j)) =>
                    /\ new[4] = 4
                    /\ \A j \in 4 .. 6 : new[j + 1] = old[j]

\* slot 7 was the first one below 0xC000 and came to the front of three
\* different larger values
C24_Witness ==
    /\ mh_pc = "done"
    /\ mh_before[4] = 49152 /\ mh_before[5] = 65536
    /\ mh_before[6] = 49153 /\ mh_before[7] = 49151
    /\ mh_history[4] = 49151

\* ---------------------------------------------------------------------
\* The match copy of Bitknit::decode and Lzna::copy_offset
\* ---------------------------------------------------------------------

\* self.output.len()
EmitLen == 20
\* largest match distance and copy length drawn
MaxDist == 9
MaxLength == 12

\* the bytes already decoded: neighbours differ, so that a copy shows
\* where each byte came from
EmitBufs == { [i \in 0 .. EmitLen - 1 |-> (7 * i + 1) % 256],
              [i \in 0 .. EmitLen - 1 |-> (i * i + 3) % 256] }

\* self.output[from..][..n].fill(v)
fill(output, from, n, v) ==
    [j \in DOMAIN output |-> IF from <= j /\ j < from + n THEN v
                                                         ELSE output[j]]

\* the for loop of copy_chunks: chunk i is copied within the output
RECURSIVE chunks(_, _, _, _, _, _)
chunks(output, dst, size, match_dist, i, n) ==
    IF i >= n THEN output
    ELSE LET d == dst + i * size
         IN  chunks(copy_within(output, d - match_dist,
                                d - match_dist + size, d),
                    dst, size, match_dist, i + 1, n)

\* Bitknit::copy_chunks::<CHUNK_SIZE>
copy_chunks(output, dst, size, copy_length, match_dist) ==
    IF match_dist > dst \/ dst + copy_length > EmitLen
    THEN [res |-> "err", out |-> output]
    ELSE LET whole == chunks(output, dst, size, match_dist, 0,
                             copy_length \div size)
             rem == copy_length % size
             d == dst + copy_length - rem
         IN  [res |-> "ok",
              out |-> copy_within(whole, d - match_dist,
                                  d - match_dist + rem, d)]

\* the bytes of the last branch of Bitknit::decode, one at a time:
\* self.output[self.dst + i] = self.output[self.dst + i - match_dist]
RECURSIVE bytewise(_, _, _, _, _)
bytewise(output, dst, match_dist, copy_length, i) ==
    IF i >= copy_length THEN output
    ELSE bytewise([output EXCEPT ![dst + i] = output[dst + i - match_dist]],
                  dst, match_dist, copy_length, i + 1)

\* chunks of 8 for every distance of 4 or more
chunk_size_8(match_dist) == 8

\* else if match_dist >= 8 { copy_chunks::<8> }
\* else if match_dist >= 4 { copy_chunks::<4> }
chunk_size(match_dist) == IF match_dist >= 8 THEN 8 ELSE 4

\* the match emit of Bitknit::decode; slicing and indexing outside the
\* output panic
bitknit_emit(output, dst, match_dist, copy_length) ==
    IF match_dist = 1
    THEN IF dst < 1 \/ dst + copy_length > EmitLen
         THEN [res |-> "panic", out |-> output, branch |-> "repeat"]
         ELSE [res |-> "ok", branch |-> "repeat",
               out |-> fill(output, dst, copy_length, output[dst - 1])]
    ELSE IF match_dist > copy_length
    THEN IF match_dist > dst \/ dst + copy_length > EmitLen
         THEN [res |-> "panic", out |-> output, branch |-> "plain"]
         ELSE [res |-> "ok", branch |-> "plain",
               out |-> copy_within(output, dst - match_dist,
                                   dst - match_dist + copy_length, dst)]
    ELSE IF match_dist >= 4
    THEN LET r == copy_chunks(output, dst, chunk_size(match_dist),
                              copy_length, match_dist)
         IN  [res |-> r.res, out |-> r.out, branch |-> "chunks"]
    ELSE IF match_dist > dst \/ dst + copy_length > EmitLen
         THEN [res |-> "panic", out |-> output, branch |-> "bytes"]
         ELSE [res |-> "ok", branch |-> "bytes",
               out |-> bytewise(output, dst, match_dist, copy_length, 0)]

\* the loop of the last branch of Lzna::copy_offset:
\* for i in (0..length).step_by(dist)
RECURSIVE steps(_, _, _, _, _)
steps(output, src, dist, length, i) ==
    IF i >= length THEN output
    ELSE steps(copy_within(output, src + i, src + Min(length, dist + i),
                           src + dist + i),
               src, dist, length, i + dist)

\* Lzna::copy_offset
copy_offset(output, dst, dist, length) ==
    IF dist > dst \/ dst + length > EmitLen
    THEN [res |-> "panic", out |-> output, branch |-> "none"]
    ELSE LET src == dst - dist
         IN  IF dist = 1
             THEN [res |-> "ok", branch |-> "repeat",
                   out |-> fill(output, dst, length, output[src])]
             ELSE IF dist > length
             THEN [res |-> "ok", branch |-> "plain",
                   out |-> copy_within(output, src, src + length, dst)]
             ELSE [res |-> "ok", branch |-> "steps",
                   out |-> steps(output, src, dist, length, 0)]

InitEmit ==
    /\ IdleExtractor
    /\ IdleCopy
    /\ IdleLz
    /\ IdleQuantum
    /\ IdleSpace
    /\ IdleRange
    /\ IdleNibble
    /\ IdleHuff
    /\ IdleO1
    /\ IdleReverse
    /\ IdleRecent
    /\ IdleParser
    /\ IdleHistory
    /\ IdleMulti
    /\ IdleRle
    /\ IdleWhole
    /\ IdleBitknit
    /\ em_pc = "call"
    /\ em_output \in EmitBufs
    /\ em_args \in [engine : {"Bitknit", "Lzna"}, dst : 0 .. EmitLen,
                     dist : 1 .. MaxDist, length : 1 .. MaxLength]
    /\ em_old = em_output
    /\ em_res = NoLast

\* the match of Bitknit::decode: copy_length = sym - 254 is 2 or more
BitknitEmit ==
    /\ UNCHANGED emitRest
    /\ em_pc = "call"
    /\ em_args.engine = "Bitknit"
    /\ em_args.length >= 2
    /\ LET r == bitknit_emit(em_output, em_args.dst, em_args.dist,
                             em_args.length)
       IN  /\ em_output' = r.out
           /\ em_res' = [op |-> r.res, branch |-> r.branch]
    /\ em_pc' = "ret"
    /\ UNCHANGED <<em_args, em_old>>

\* self.copy_offset(dist, length) of Lzna::decode_quantum
LznaCopyOffset ==
    /\ UNCHANGED emitRest
    /\ em_pc = "call"
    /\ em_args.engine = "Lzna"
    /\ LET r == copy_offset(em_output, em_args.dst, em_args.dist,
                            em_args.length)
       IN  /\ em_output' = r.out
           /\ em_res' = [op |-> r.res, branch |-> r.branch]
    /\ em_pc' = "ret"
    /\ UNCHANGED <<em_args, em_old>>

NextEmit ==
    \/ BitknitEmit
    \/ LznaCopyOffset

SpecEmit == InitEmit /\ [][NextEmit]_vars

\* C25: for every match distance d >= 1 and copy length, each branch of
\* the Bitknit match emit (repeat for d = 1, plain copy for d > length,
\* chunks of 8 for d >= 8, chunks of 4 for d >= 4, bytes otherwise) and
\* Lzna's copy_offset leave the bytes of a byte-at-a-time forward copy,
\* output[dst + i] = output[dst + i - d] for i = 0, 1, ..., length - 1.
C25_EmitEqualsByteCopy ==
    (em_pc = "ret" /\ em_res.op = "ok") =>
        em_output = byte_copy(em_old, em_args.dst,
                              em_args.dst - em_args.dist, em_args.length, 0)

\* Bitknit copies 11 bytes at distance 5 in chunks of 4 and a remainder
C25_Witness ==
    /\ em_pc = "ret"
    /\ em_res.op = "ok"
    /\ em_res.branch = "chunks"
    /\ em_args.dist = 5
    /\ em_args.length = 11

\* ---------------------------------------------------------------------
\* The eight command streams of Leviathan (cmd-stream flag 0x83)
\* ---------------------------------------------------------------------

\* bytes of the chunk
McRoom == 24

\* chunk starts: Core::decode_quantum advances dst by 0x20000 from an
\* offset that is a multiple of the block size, so every chunk starts at
\* a multiple of 8
ChunkStarts == {0, 16}

\* the lengths decode_multi_array gives the eight arrays
StreamLens == {l \in [0 .. 7 -> 0 .. 2] :
                 l[0] + l[1] + l[2] + l[3] + l[4] + l[5] + l[6] + l[7] <= 3}

\* bytes a command adds to dst: its literals and its match
Advances == {2, 3, 8, 10}

RECURSIVE sum_before(_, _)
sum_before(lens, j) == IF j = 0 THEN 0 ELSE lens[j - 1] + sum_before(lens, j - 1)

\* multi_cmd_ptr[j]: decode_multi_array lays the arrays one behind the
\* other from tmp
multi_cmd_ptr(lens, j) == sum_before(lens, j)

\* the stream whose bytes lie at the address; 8 for the scratch bytes
\* that follow the last stream
owner(lens, p) ==
    IF \E j \in 0 .. 7 : multi_cmd_ptr(lens, j) <= p
                         /\ p < multi_cmd_ptr(lens, j) + lens[j]
    THEN CHOOSE j \in 0 .. 7 : multi_cmd_ptr(lens, j) <= p
                               /\ p < multi_cmd_ptr(lens, j) + lens[j]
    ELSE 8

\* i.wrapping_sub(dst_start.index) & 7
rotated(i, dst_start) == (i - dst_start) % 8

\* for (i, p) in multi_cmd_stream.iter_mut().enumerate() {
\*     *p = self.multi_cmd_ptr.get_copy(i.wrapping_sub(dst_start.index) & 7)? }
multi_cmd_stream_new(lens, dst_start) ==
    [i \in 0 .. 7 |-> multi_cmd_ptr(lens, rotated(i, dst_start))]

InitMulti ==
    /\ IdleExtractor
    /\ IdleCopy
    /\ IdleLz
    /\ IdleQuantum
    /\ IdleSpace
    /\ IdleRange
    /\ IdleNibble
    /\ IdleHuff
    /\ IdleO1
    /\ IdleReverse
    /\ IdleRecent
    /\ IdleParser
    /\ IdleHistory
    /\ IdleEmit
    /\ IdleRle
    /\ IdleWhole
    /\ IdleBitknit
    /\ mc_pc = "loop"
    /\ mc_start \in ChunkStarts
    /\ mc_dst = IF mc_start = 0 THEN 8 ELSE mc_start
    /\ mc_lens \in StreamLens
    /\ mc_stream = multi_cmd_stream_new(mc_lens, mc_start)
    /\ mc_cur = mc_stream[mc_dst % 8]
    /\ mc_left = sum_before(mc_lens, 8)
    /\ mc_obs = NoLast

\* one iteration of the loop of process_lz with multi_cmd: the command is
\* read at cmd_stream, the slot's address moves on, the literals and the
\* match are written, and the slot of the new dst is selected
MultiCommand ==
    /\ UNCHANGED multiRest
    /\ mc_pc = "loop"
    /\ mc_left > 0
    /\ mc_left' = mc_left - 1
    /\ \E advance \in Advances, copies \in {"ok", "err"} :
        LET slot == mc_dst % 8
            stream == [mc_stream EXCEPT ![slot] = mc_cur + 1]
            dst == mc_dst + advance
        IN  IF copies = "err" \/ dst > mc_start + McRoom
            THEN /\ mc_pc' = "err"
                 /\ mc_stream' = stream
                 /\ mc_obs' = [op |-> "err"]
                 /\ UNCHANGED <<mc_dst, mc_cur>>
            ELSE /\ mc_stream' = stream
                 /\ mc_dst' = dst
                 /\ mc_cur' = stream[dst % 8]
                 /\ mc_obs' = [op |-> "command", at |-> mc_dst,
                               address |-> mc_cur,
                               owner |-> owner(mc_lens, mc_cur),
                               nth |-> mc_cur - multi_cmd_ptr(
                                           mc_lens, owner(mc_lens, mc_cur))]
                 /\ UNCHANGED mc_pc
    /\ UNCHANGED <<mc_start, mc_lens>>

\* cmd_stream_left == 0: break, and the end of process_lz; no stream
\* address is compared with multi_cmd_end
MultiFinish ==
    /\ UNCHANGED multiRest
    /\ mc_pc = "loop"
    /\ mc_left = 0
    /\ mc_pc' = "ok"
    /\ mc_obs' = [op |-> "finish"]
    /\ UNCHANGED <<mc_start, mc_dst, mc_lens, mc_stream, mc_cur, mc_left>>

NextMulti ==
    \/ MultiCommand
    \/ MultiFinish

SpecMulti == InitMulti /\ [][NextMulti]_vars

\* C26: in multi-command mode every command byte is taken from the
\* command stream whose number, in bitstream order, equals the output
\* position at that moment mod 8, the stream being selected anew after
\* every command, and the bytes of each of the eight streams are consumed
\* in order.
C26_CommandFromStreamOfPosition ==
    [][(mc_pc = "loop" /\ mc_obs'.op = "command") =>
          LET slot == mc_dst % 8
          IN  /\ mc_obs'.at = mc_dst
              /\ mc_obs'.address = mc_stream[slot]
              /\ mc_obs'.owner = slot
              /\ mc_stream'[slot] = mc_stream[slot] + 1
              /\ \A i \in 0 .. 7 : i # slot => mc_stream'[i] = mc_stream[i]
      ]_vars

-----------------------------------------------------------------------------
(* The model update of Lzna::read_nibble, checked under SpecNibble *)

\* p += (target - p) >> 7 on integers, the shift keeping the sign
adapt(p, target) == p + ((target - p) \div 128)

\* C27 as stated: after read_nibble decodes nibble i, every cell prob[k]
\* is updated by p += (target - p) >> 7 with
\* target = 0x7FD9 * (k > i ? 0 : 1) + 8 * k.
C27_UpdateAsStated ==
    [][nm_steps' = nm_steps + 1 =>
          \A k \in 0 .. 16 :
              nm_prob'[k] = adapt(nm_prob[k],
                                  32729 * (IF k > nm_sym' THEN 0 ELSE 1)
                                  + 8 * k)
      ]_vars

\* C27 amended: after read_nibble decodes nibble i, every cell prob[k] with
\* k in 0..15 is updated by p += (target - p) >> 7 with
\* target = 0x7FD9 * (k > i ? 1 : 0) + 8 * k, and prob[16] is left as it
\* is.
C27_UpdateTowardsUpperCells ==
    [][nm_steps' = nm_steps + 1 =>
          /\ \A k \in 0 .. 15 :
                nm_prob'[k] = adapt(nm_prob[k],
                                    32729 * (IF k > nm_sym' THEN 1 ELSE 0)
                                    + 8 * k)
          /\ nm_prob'[16] = nm_prob[16]
      ]_vars

\* a nibble inside the alphabet was decoded, and cells on both sides of it
\* have moved
C27_Witness ==
    /\ nm_pc = "run"
    /\ nm_steps = 1
    /\ nm_sym = 8
    /\ nm_prob[8] < NibbleDefault[8]
    /\ nm_prob[9] > NibbleDefault[9]

\* ---------------------------------------------------------------------
\* Core::decode_rle (chunk type 3)
\* ---------------------------------------------------------------------

\* the largest chunk and output range
MaxRleSrc == 67
MaxRleDst == 128
\* commands of one chunk
MaxRleCmds == 3

\* sizes of the chunk and of the range it has to fill
RleSrcSizes == {1, 3, 17, MaxRleSrc}
RleDstSizes == {15, 64, MaxRleDst}

\* command bytes, one or two of every shape and the ends of their ranges
RleCmds == {0, 1, 2, 8, 9, 15, 16, 47, 48, 94, 255}
\* the byte below the command in a two-byte command
RleLows == {0, 65}
\* values of the cached byte
RleBytes == {7, 9}

\* the shapes with the short form for cmd > 0x2F only
rle_shape_above(cmd) ==
    IF cmd > 47 THEN "short"
    ELSE IF cmd >= 16 THEN "word"
    ELSE IF cmd = 1 THEN "byte"
    ELSE IF cmd >= 9 THEN "fill"
    ELSE "copy"

\* if cmd == 0 || cmd > 0x2f {..} else if cmd >= 0x10 {..}
\* else if cmd == 1 {..} else if cmd >= 9 {..} else {..}
rle_shape(cmd) ==
    IF cmd = 0 \/ cmd > 47 THEN "short"
    ELSE IF cmd >= 16 THEN "word"
    ELSE IF cmd = 1 THEN "byte"
    ELSE IF cmd >= 9 THEN "fill"
    ELSE "copy"

\* self.get_le_bytes(cmd_ptr_end, 2): the command byte is the high byte
le_word(cmd, low) == 256 * cmd + low

\* bytes_to_copy of the command
bytes_to_copy(cmd, low) ==
    LET shape == rle_shape(cmd)
    IN  IF shape = "short" THEN 15 - (cmd % 16)
        ELSE IF shape = "word" THEN (le_word(cmd, low) - 4096) % 64
        ELSE IF shape = "copy" THEN (le_word(cmd, low) - 511) * 64
        ELSE 0

\* bytes_to_rle of the command
bytes_to_rle(cmd, low) ==
    LET shape == rle_shape(cmd)
    IN  IF shape = "short" THEN cmd \div 16
        ELSE IF shape = "word" THEN (le_word(cmd, low) - 4096) \div 64
        ELSE IF shape = "fill" THEN (le_word(cmd, low) - 2303) * 128
        ELSE 0

InitRle ==
    /\ IdleExtractor
    /\ IdleCopy
    /\ IdleLz
    /\ IdleQuantum
    /\ IdleSpace
    /\ IdleRange
    /\ IdleNibble
    /\ IdleHuff
    /\ IdleO1
    /\ IdleReverse
    /\ IdleRecent
    /\ IdleParser
    /\ IdleHistory
    /\ IdleEmit
    /\ IdleMulti
    /\ IdleWhole
    /\ IdleBitknit
    /\ rl_pc = "start"
    /\ rl_src_size \in RleSrcSizes
    /\ rl_dst_size \in RleDstSizes
    /\ rl_cmd_ptr = 0
    /\ rl_cmd_ptr_end = 0
    /\ rl_dst = 0
    /\ rl_byte = 0
    /\ rl_cmds = 0
    /\ rl_obs = NoLast

\* src_size == 1: the byte fills the range, return Ok(1)
RleSingle ==
    /\ UNCHANGED rleRest
    /\ rl_pc = "start"
    /\ rl_src_size = 1
    /\ rl_pc' = "ok"
    /\ rl_dst' = rl_dst_size
    /\ rl_cmd_ptr' = 1
    /\ rl_cmd_ptr_end' = 1
    /\ rl_obs' = [op |-> "memset"]
    /\ UNCHANGED <<rl_src_size, rl_dst_size, rl_byte, rl_cmds>>

\* the first byte is 0: the commands are the bytes behind it
RleRaw ==
    /\ UNCHANGED rleRest
    /\ rl_pc = "start"
    /\ rl_src_size > 1
    /\ rl_pc' = "loop"
    /\ rl_cmd_ptr' = 1
    /\ rl_cmd_ptr_end' = rl_src_size
    /\ rl_obs' = [op |-> "raw"]
    /\ UNCHANGED <<rl_src_size, rl_dst_size, rl_dst, rl_byte, rl_cmds>>

\* the first byte is not 0: decode_bytes unpacks dec_size bytes from the
\* first n bytes of the chunk into scratch (or fails) and the rest of the
\* chunk is copied behind them
RleUnpack ==
    /\ UNCHANGED rleRest
    /\ rl_pc = "start"
    /\ rl_src_size > 1
    /\ \E n \in {0, 2, rl_src_size}, dec_size \in {1, 4}, ok \in BOOLEAN :
          IF ~ok \/ n = 0
          THEN /\ rl_pc' = "err"
               /\ rl_obs' = [op |-> "err"]
               /\ UNCHANGED <<rl_cmd_ptr, rl_cmd_ptr_end>>
          ELSE /\ rl_pc' = "loop"
               /\ rl_cmd_ptr' = 0
               /\ rl_cmd_ptr_end' = rl_src_size - n + dec_size
               /\ rl_obs' = [op |-> "unpacked"]
    /\ UNCHANGED <<rl_src_size, rl_dst_size, rl_dst, rl_byte, rl_cmds>>

\* the command ends the decode
RleStop(res) ==
    /\ rl_pc' = res
    /\ rl_obs' = [op |-> res]
    /\ UNCHANGED <<rl_src_size, rl_dst_size, rl_cmd_ptr, rl_cmd_ptr_end,
                   rl_dst, rl_byte, rl_cmds>>

\* one iteration of the loop: the command is the last byte of the buffer;
\* the bytes it copies are the first ones.  below: what the two-byte read
\* gives when it starts before the buffer (a panic of the pointer
\* subtraction, an error of the read, or a byte of the space)
RleCommand ==
    /\ UNCHANGED rleRest
    /\ rl_pc = "loop"
    /\ rl_cmd_ptr < rl_cmd_ptr_end
    /\ rl_cmds < MaxRleCmds
    /\ \E cmd \in RleCmds, low \in RleLows, value \in RleBytes,
          below \in {"panic", "err", "read"} :
        LET shape == rle_shape(cmd)
            back == IF shape \in {"short", "byte"} THEN 1 ELSE 2
            new_end == rl_cmd_ptr_end - back
            to_copy == bytes_to_copy(cmd, low)
            to_rle == bytes_to_rle(cmd, low)
            front == IF shape = "byte" THEN 1 ELSE to_copy
        IN  IF new_end < 0 /\ below # "read" THEN RleStop(below)
            ELSE IF shape # "byte"
                    /\ (to_copy + to_rle > rl_dst_size - rl_dst
                        \/ to_copy > new_end - rl_cmd_ptr)
                 THEN RleStop("err")
            ELSE /\ rl_cmd_ptr_end' = new_end
                 /\ rl_cmd_ptr' = rl_cmd_ptr + front
                 /\ rl_dst' = rl_dst + to_copy + to_rle
                 /\ rl_byte' = IF shape = "byte" THEN value ELSE rl_byte
                 /\ rl_obs' = [op |-> "cmd", cmd |-> cmd, low |-> low,
                               back |-> back, front |-> front,
                               copied |-> to_copy, filled |-> to_rle,
                               with |-> rl_byte, value |-> value]
                 /\ rl_cmds' = rl_cmds + 1
                 /\ UNCHANGED <<rl_pc, rl_src_size, rl_dst_size>>

\* the end of the loop: self.assert_eq(cmd_ptr, cmd_ptr_end) and
\* self.assert_eq(dst, dst_end)
RleFinish ==
    /\ UNCHANGED rleRest
    /\ rl_pc = "loop"
    /\ rl_cmd_ptr >= rl_cmd_ptr_end
    /\ rl_pc' = IF rl_cmd_ptr = rl_cmd_ptr_end /\ rl_dst = rl_dst_size
                THEN "ok" ELSE "err"
    /\ rl_obs' = [op |-> "finish"]
    /\ UNCHANGED <<rl_src_size, rl_dst_size, rl_cmd_ptr, rl_cmd_ptr_end,
                   rl_dst, rl_byte, rl_cmds>>

NextRle ==
    \/ RleSingle
    \/ RleRaw
    \/ RleUnpack
    \/ RleCommand
    \/ RleFinish

SpecRle == InitRle /\ [][NextRle]_vars

\* what a command of each shape does, the short form being the shape of
\* the commands in Short
RleShapes(Short) ==
    rl_obs.op = "cmd" =>
        LET cmd == rl_obs.cmd
            word == 256 * cmd + rl_obs.low
        IN  /\ cmd \in Short =>
                /\ rl_obs.back = 1
                /\ rl_obs.copied = 15 - (cmd % 16)
                /\ rl_obs.filled = cmd \div 16
            /\ (cmd >= 16 /\ cmd <= 47) =>
                /\ rl_obs.back = 2
                /\ rl_obs.copied = (word - 4096) % 64
                /\ rl_obs.filled = (word - 4096) \div 64
            /\ cmd = 1 =>
                /\ rl_obs.back = 1 /\ rl_obs.front = 1
                /\ rl_obs.copied = 0 /\ rl_obs.filled = 0
                /\ rl_byte = rl_obs.value
            /\ (cmd >= 9 /\ cmd <= 15) =>
                /\ rl_obs.back = 2
                /\ rl_obs.copied = 0
                /\ rl_obs.filled = (word - 2303) * 128
            /\ (cmd < 9 /\ cmd # 1 /\ cmd \notin Short) =>
                /\ rl_obs.back = 2
                /\ rl_obs.copied = (word - 511) * 64
                /\ rl_obs.filled = 0
            /\ cmd # 1 => /\ rl_obs.front = rl_obs.copied
                          /\ rl_byte = rl_obs.with

\* a stream is accepted only with the commands consumed exactly and the
\* output filled exactly
RleExact ==
    rl_pc = "ok" => /\ rl_cmd_ptr = rl_cmd_ptr_end
                    /\ rl_dst = rl_dst_size

\* C28 as stated: cmd > 0x2F is the short form (copy ~cmd & 0xF bytes, then
\* repeat the cached byte cmd >> 4 times), 0x10 <= cmd <= 0x2F the 16-bit
\* form, cmd == 1 replaces the cached byte, 9 <= cmd <= 0xF is a long
\* fill, and every cmd < 9 other than 1 is a long copy of
\* (two-byte value - 511) * 64 bytes; a stream is accepted only if the
\* commands are consumed exactly and the output is filled exactly.
C28_ShapesAsStated ==
    /\ RleShapes(48 .. 255)
    /\ RleExact

\* C28 amended: cmd == 0 is a short form as well (15 bytes copied, none
\* repeated), and the long copy is the shape of 2 <= cmd <= 8.
C28_ShapesWithZeroShort ==
    /\ RleShapes({0} \cup 48 .. 255)
    /\ RleExact

\* a chunk ending in the command 0 was accepted: 15 bytes were copied
C28_Witness ==
    /\ rl_pc = "ok"
    /\ rl_dst_size = 15
    /\ rl_dst = 15
    /\ rl_cmd_ptr > 15

\* ---------------------------------------------------------------------
\* The WholeMatch quantum of Extractor::extract
\* ---------------------------------------------------------------------

\* output.len() and the block size, scaled down
WholeLen == 26
WholeBlock == 6

\* bytes_written when a quantum starts: a multiple of the block size
WholeOffsets == {k * WholeBlock : k \in 0 .. (WholeLen - 1) \div WholeBlock}

\* the caller's buffer: the bytes before offset are decoded ones, the
\* bytes from offset on are what the caller left there (zeros, or the
\* bytes of an earlier use)
WholeBufs(offset) ==
    { [i \in 0 .. WholeLen - 1 |-> (7 * i + 1) % 256],
      [i \in 0 .. WholeLen - 1 |-> IF i < offset THEN (i * i + 3) % 256
                                                 ELSE 0] }

InitWhole ==
    /\ IdleExtractor
    /\ IdleCopy
    /\ IdleLz
    /\ IdleQuantum
    /\ IdleSpace
    /\ IdleRange
    /\ IdleNibble
    /\ IdleHuff
    /\ IdleO1
    /\ IdleReverse
    /\ IdleRecent
    /\ IdleParser
    /\ IdleHistory
    /\ IdleEmit
    /\ IdleMulti
    /\ IdleRle
    /\ IdleBitknit
    /\ wm_pc = "call"
    /\ \E offset \in WholeOffsets, dist \in 1 .. WholeLen :
          /\ wm_args = [offset |-> offset,
                        dst_bytes_left |-> Min(WholeLen - offset, WholeBlock),
                        whole_match_distance |-> dist]
          /\ wm_output \in WholeBufs(offset)
    /\ wm_old = wm_output
    /\ wm_res = "none"

\* QuantumHeader::WholeMatch { whole_match_distance } of extract:
\* output.copy_within(from..to, offset) moves the bytes as memmove does
WholeMatch ==
    /\ UNCHANGED wholeRest
    /\ wm_pc = "call"
    /\ wm_pc' = "ret"
    /\ LET offset == wm_args.offset
           whole_match_distance == wm_args.whole_match_distance
           from == offset - whole_match_distance
           to == from + wm_args.dst_bytes_left
       IN  IF whole_match_distance > offset
           THEN /\ wm_res' = "err"
                /\ UNCHANGED wm_output
           ELSE /\ wm_res' = "ok"
                /\ wm_output' = copy_within(wm_output, from, to, offset)
    /\ UNCHANGED <<wm_old, wm_args>>

NextWhole == WholeMatch

SpecWhole == InitWhole /\ [][NextWhole]_vars

\* C29: a WholeMatch quantum with distance d <= offset leaves its window
\* with output[offset + i] = output[offset + i - d] for every i of the
\* window, also when d is smaller than the window length so that source
\* and destination overlap; a distance d > offset is rejected with an
\* error.
C29_WholeMatchReplicates ==
    wm_pc = "ret" =>
        LET offset == wm_args.offset
            d == wm_args.whole_match_distance
        IN  /\ d > offset <=> wm_res = "err"
            /\ wm_res = "ok" =>
                 \A i \in 0 .. wm_args.dst_bytes_left - 1 :
                    wm_output[offset + i] = wm_output[offset + i - d]

\* ---------------------------------------------------------------------
\* recent_dist_mask of BitknitState
\* ---------------------------------------------------------------------

\* quanta and matches of one session
MaxBkQuanta == 2
MaxBkMatches == 3

\* distances of new matches
BkDists == {5, 9}

\* 2^n
RECURSIVE pow2(_)
pow2(n) == IF n = 0 THEN 1 ELSE 2 * pow2(n - 1)

\* (recent_mask >> (3 * j)) & 7
field(recent_mask, j) == (recent_mask \div pow2(3 * j)) % 8

\* BitknitState::new: (1 << 3) | (2 << 6) | ... | (7 << 21)
recent_dist_mask_new ==
    pow2(3) + 2 * pow2(6) + 3 * pow2(9) + 4 * pow2(12) + 5 * pow2(15)
    + 6 * pow2(18) + 7 * pow2(21)

\* the update with the field of sym kept where it is: mask = !0 << (3 * sym)
move_to_front_keep(recent_mask, sym) ==
    LET low == pow2(3 * sym)
        idx == field(recent_mask, sym)
    IN  (recent_mask - (recent_mask % low))
        + ((idx + 8 * recent_mask) % low)

\* let idx = (recent_mask >> (3 * sym)) & 7; let mask = !7 << (3 * sym);
\* recent_mask = (recent_mask & mask) | ((idx + 8 * recent_mask) & !mask)
move_to_front(recent_mask, sym) ==
    LET low == pow2(3 * sym + 3)
        idx == field(recent_mask, sym)
    IN  (recent_mask - (recent_mask % low))
        + ((idx + 8 * recent_mask) % low)

\* recent_mask as u32: the low 32 bits, taken as two 16-bit halves
as_u32(x) == (x % pow2(16)) + pow2(16) * ((x \div pow2(16)) % pow2(16))

InitBitknit ==
    /\ IdleExtractor
    /\ IdleCopy
    /\ IdleLz
    /\ IdleQuantum
    /\ IdleSpace
    /\ IdleRange
    /\ IdleNibble
    /\ IdleHuff
    /\ IdleO1
    /\ IdleReverse
    /\ IdleRecent
    /\ IdleParser
    /\ IdleHistory
    /\ IdleEmit
    /\ IdleMulti
    /\ IdleRle
    /\ IdleWhole
    /\ bk_pc = "quantum"
    /\ bk_mask = recent_dist_mask_new
    /\ bk_recent_mask = 0
    /\ bk_recent_dist = [i \in 0 .. 7 |-> 1]
    /\ bk_quanta = 0
    /\ bk_matches = 0
    /\ bk_obs = NoLast

\* the head of Bitknit::decode: recent_mask is read from the state; a
\* first word below 0x10000 returns Ok(0) at once, before any match and
\* without the store of the end
BkBegin ==
    /\ UNCHANGED bitknitRest
    /\ bk_pc = "quantum"
    /\ bk_quanta < MaxBkQuanta
    /\ bk_quanta' = bk_quanta + 1
    /\ bk_recent_mask' = bk_mask
    /\ \E v_small \in BOOLEAN :
          /\ bk_pc' = IF v_small THEN "err" ELSE "loop"
          /\ bk_obs' = [op |-> IF v_small THEN "empty" ELSE "begin"]
    /\ UNCHANGED <<bk_mask, bk_recent_dist, bk_matches>>

\* sym >= 8: a match with a new distance, which takes the place of the
\* entry of field 6, that entry going to the place of field 7
BkNewDistance ==
    /\ UNCHANGED bitknitRest
    /\ bk_pc = "loop"
    /\ bk_matches < MaxBkMatches
    /\ bk_matches' = bk_matches + 1
    /\ \E match_dist \in BkDists :
        LET i1 == field(bk_recent_mask, 7)
            i2 == field(bk_recent_mask, 6)
        IN  /\ bk_recent_dist' = [bk_recent_dist EXCEPT
                                     ![i1] = bk_recent_dist[i2],
                                     ![i2] = match_dist]
            /\ bk_obs' = [op |-> "new", dist |-> match_dist]
    /\ UNCHANGED <<bk_pc, bk_mask, bk_recent_mask, bk_quanta>>

\* sym < 8: a match with the distance of field sym, which moves to the
\* front of the mask
BkRecentDistance ==
    /\ UNCHANGED bitknitRest
    /\ bk_pc = "loop"
    /\ bk_matches < MaxBkMatches
    /\ bk_matches' = bk_matches + 1
    /\ \E sym \in 0 .. 7 :
          /\ bk_recent_mask' = move_to_front(bk_recent_mask, sym)
          /\ bk_obs' = [op |-> "recent", sym |-> sym,
                        dist |-> bk_recent_dist[field(bk_recent_mask, sym)]]
    /\ UNCHANGED <<bk_pc, bk_mask, bk_recent_dist, bk_quanta>>

\* a read, a write or a copy of the loop returns an error: the state
\* keeps the mask of the last quantum that ended
BkError ==
    /\ UNCHANGED bitknitRest
    /\ bk_pc = "loop"
    /\ bk_pc' = "err"
    /\ bk_obs' = [op |-> "err"]
    /\ UNCHANGED <<bk_mask, bk_recent_mask, bk_recent_dist, bk_quanta,
                   bk_matches>>

\* the end of decode: self.state.recent_dist_mask = recent_mask as u32
BkEnd ==
    /\ UNCHANGED bitknitRest
    /\ bk_pc = "loop"
    /\ bk_pc' = "quantum"
    /\ bk_mask' = as_u32(bk_recent_mask)
    /\ bk_obs' = [op |-> "end"]
    /\ UNCHANGED <<bk_recent_mask, bk_recent_dist, bk_quanta, bk_matches>>

NextBitknit ==
    \/ BkBegin
    \/ BkNewDistance
    \/ BkRecentDistance
    \/ BkError
    \/ BkEnd

SpecBitknit == InitBitknit /\ [][NextBitknit]_vars

\* the eight 3-bit fields are pairwise distinct and nothing lies above
\* them
IsPermutation(mask) ==
    /\ mask < pow2(24)
    /\ \A i, j \in 0 .. 7 : i # j => field(mask, i) # field(mask, j)

\* C30: recent_dist_mask always encodes a permutation of the slot indices
\* 0..7 in its eight 3-bit fields: it is the identity at the start, and
\* after every match, with a new distance or with a recent one moved to
\* the front, the fields are pairwise distinct, also across the quanta
\* that share the state.
C30_MaskIsPermutation ==
    /\ bk_pc # "idle" => IsPermutation(bk_mask)
    /\ bk_pc = "loop" => IsPermutation(bk_recent_mask)
    /\ (bk_pc = "quantum" /\ bk_quanta = 0) =>
          \A j \in 0 .. 7 : field(bk_mask, j) = j
    /\ bk_obs.op = "recent" =>
          field(bk_recent_mask, 0) \in 0 .. 7
          /\ bk_obs.dist = bk_recent_dist[field(bk_recent_mask, 0)]

\* in the second quantum a recent distance of field 5 was moved to the
\* front of a mask that the first quantum had changed
C30_Witness ==
    /\ bk_quanta = 2
    /\ bk_obs.op = "recent"
    /\ bk_obs.sym = 5
    /\ bk_mask # recent_dist_mask_new
    /\ bk_recent_mask # bk_mask

====
